---- MODULE Spec2Model ----
(***************************************************************************)
(* CONV2: the conversion orchestration of the main process (ffmpeg.ts,     *)
(* main.ts) together with the renderer's start / cancel wiring.            *)
(*                                                                         *)
(* A run and the transcoding process it spawns share one index in Procs.   *)
(* Texts (paths, diagnostics) are sequences of tokens: a path is the       *)
(* sequence of its separators "/" and "." and of the names between them,   *)
(* a diagnostic is the sequence of its words.                              *)
(***************************************************************************)
EXTENDS Integers, Sequences, FiniteSets, TLC

\* ------------------------------------------------------------------ bounds
MaxRuns == 2

MaxTimers == 1

Procs == 1..MaxRuns

\* ------------------------------------------------------------- static data
Vendors == {"nvidia", "amd", "intel", "apple", "cpu"}

VideoCategories == {"av1", "h264", "h265"}

\* a variant of the table in which amd has no av1 encoder
GPU_ENCODERS_Incomplete ==
  [h264 |-> [nvidia |-> "h264_nvenc", amd |-> "h264_amf", intel |-> "h264_qsv",
             apple |-> "h264_videotoolbox", cpu |-> "libx264"],
   h265 |-> [nvidia |-> "hevc_nvenc", amd |-> "hevc_amf", intel |-> "hevc_qsv",
             apple |-> "hevc_videotoolbox", cpu |-> "libx265"],
   av1  |-> [nvidia |-> "av1_nvenc", amd |-> "", intel |-> "av1_qsv",
             apple |-> "libsvtav1", cpu |-> "libsvtav1"]]

GPU_ENCODERS ==
  [h264 |-> [nvidia |-> "h264_nvenc", amd |-> "h264_amf", intel |-> "h264_qsv",
             apple |-> "h264_videotoolbox", cpu |-> "libx264"],
   h265 |-> [nvidia |-> "hevc_nvenc", amd |-> "hevc_amf", intel |-> "hevc_qsv",
             apple |-> "hevc_videotoolbox", cpu |-> "libx265"],
   av1  |-> [nvidia |-> "av1_nvenc", amd |-> "av1_amf", intel |-> "av1_qsv",
             apple |-> "libsvtav1", cpu |-> "libsvtav1"]]

presets ==
  << [id |-> "av1-balanced",    category |-> "av1",   extension |-> "mp4"],
     [id |-> "av1-quality",     category |-> "av1",   extension |-> "mp4"],
     [id |-> "av1-compression", category |-> "av1",   extension |-> "mp4"],
     [id |-> "h264-fast",       category |-> "h264",  extension |-> "mp4"],
     [id |-> "h264-quality",    category |-> "h264",  extension |-> "mp4"],
     [id |-> "h265-balanced",   category |-> "h265",  extension |-> "mp4"],
     [id |-> "h265-quality",    category |-> "h265",  extension |-> "mp4"],
     [id |-> "remux-mp4",       category |-> "remux", extension |-> "mp4"],
     [id |-> "remux-mkv",       category |-> "remux", extension |-> "mkv"],
     [id |-> "remux-webm",      category |-> "remux", extension |-> "webm"],
     [id |-> "audio-mp3",       category |-> "audio", extension |-> "mp3"],
     [id |-> "audio-aac",       category |-> "audio", extension |-> "aac"],
     [id |-> "audio-flac",      category |-> "audio", extension |-> "flac"] >>

\* presets.find((p) => p.id === id): the first match, or undefined
NoPreset == [id |-> "undefined"]

\* a variant of getPresetById that falls back to the first preset
getPresetOrFirst(id) ==
  LET hits == {i \in 1..Len(presets) : presets[i].id = id}
  IN  IF hits = {} THEN presets[1]
      ELSE presets[CHOOSE i \in hits : \A j \in hits : i <= j]

getPresetById(id) ==
  LET hits == {i \in 1..Len(presets) : presets[i].id = id}
  IN  IF hits = {} THEN NoPreset
      ELSE presets[CHOOSE i \in hits : \A j \in hits : i <= j]

\* ------------------------------------------------------------------ paths
\* index of the last occurrence of token c in s, 0 when there is none
LastIndexOf(s, c) ==
  LET hits == {i \in 1..Len(s) : s[i] = c}
  IN  IF hits = {} THEN 0 ELSE CHOOSE i \in hits : \A j \in hits : j <= i

\* the part of a path after its last separator
FileName(p) == SubSeq(p, LastIndexOf(p, "/") + 1, Len(p))

\* a variant of extname that cuts at the first "." of the file name
extnameFirstDot(p) ==
  LET f == FileName(p)
      hits == {i \in 1..Len(f) : f[i] = "."}
  IN  IF hits = {} THEN << >>
      ELSE SubSeq(f, CHOOSE i \in hits : \A j \in hits : i <= j, Len(f))

\* path.extname: from the last "." of the file name, "" when there is none or
\* when the "." opens the file name
extname(p) ==
  LET f == FileName(p)
      d == LastIndexOf(f, ".")
  IN  IF d <= 1 THEN << >> ELSE SubSeq(f, d, Len(f))

\* path.basename(p, ext): the file name with the suffix ext removed
basename(p, ext) ==
  LET f == FileName(p)
      n == Len(f) - Len(ext)
  IN  IF ext # << >> /\ n >= 1 /\ SubSeq(f, n + 1, Len(f)) = ext
      THEN SubSeq(f, 1, n) ELSE f

\* path.dirname
dirname(p) ==
  LET s == LastIndexOf(p, "/")
  IN  IF s = 0 THEN <<".">>
      ELSE IF s = 1 THEN <<"/">>
      ELSE SubSeq(p, 1, s - 1)

\* path.join of a directory and a file name
join(dir, name) ==
  IF dir = << >> THEN name
  ELSE IF dir[Len(dir)] = "/" THEN dir \o name
  ELSE dir \o <<"/">> \o name

\* convertVideo's output path
OutputPathOf(inputPath, outputDir, preset) ==
  LET inputBasename == basename(inputPath, extname(inputPath))
  IN  join(outputDir, inputBasename \o <<"_converted", ".", preset.extension>>)

\* ------------------------------------------------------------ diagnostics
\* a variant of Includes that matches at the start only
IncludesAtStart(text, needle) ==
  Len(needle) <= Len(text) /\ SubSeq(text, 1, Len(needle)) = needle

\* String.prototype.includes on token sequences
Includes(text, needle) ==
  \E i \in 0..(Len(text) - Len(needle)) :
     SubSeq(text, i + 1, i + Len(needle)) = needle

NoGPUError == [type |-> "null"]

\* a variant of GPUError that cannot be retried and has no known type
GPUErrorUnknown(type, rule, gpu, codec) ==
  [type |-> "unknown", rule |-> rule, canRetryWithCPU |-> FALSE, gpu |-> gpu,
   codec |-> codec]

GPUError(type, rule, gpu, codec) ==
  [type |-> type, rule |-> rule, canRetryWithCPU |-> TRUE, gpu |-> gpu, codec |-> codec]

parseGPUError(errorOutput, gpu, codec) ==
  IF gpu = "nvidia" /\ ( Includes(errorOutput, <<"No", "capable", "devices", "found">>)
                      \/ Includes(errorOutput, <<"Cannot", "load", "nvEncodeAPI">>)
                      \/ Includes(errorOutput, <<"nvEncodeAPICreateInstance", "failed">>) )
    THEN GPUError("gpu_capability", "nvidia-init", gpu, codec)
  ELSE IF gpu = "nvidia" /\ ( Includes(errorOutput, <<"not", "capable">>)
                           \/ Includes(errorOutput, <<"unsupported">>) )
    THEN GPUError("gpu_capability", "nvidia-unsupported", gpu, codec)
  ELSE IF gpu = "amd" /\ Includes(errorOutput, <<"AMF">>)
                      /\ ( Includes(errorOutput, <<"failed">>)
                        \/ Includes(errorOutput, <<"error">>) )
    THEN GPUError("gpu_capability", "amd-init", gpu, codec)
  ELSE IF gpu = "amd" /\ ( Includes(errorOutput, <<"not", "supported">>)
                        \/ Includes(errorOutput, <<"unsupported">>) )
    THEN GPUError("gpu_capability", "amd-unsupported", gpu, codec)
  ELSE IF gpu = "intel" /\ Includes(errorOutput, <<"QSV">>)
                        /\ ( Includes(errorOutput, <<"failed">>)
                          \/ Includes(errorOutput, <<"error">>)
                          \/ Includes(errorOutput, <<"not", "found">>) )
    THEN GPUError("gpu_capability", "intel-init", gpu, codec)
  ELSE IF gpu = "apple" /\ Includes(errorOutput, <<"videotoolbox">>)
                        /\ ( Includes(errorOutput, <<"failed">>)
                          \/ Includes(errorOutput, <<"error">>) )
    THEN GPUError("gpu_capability", "apple-init", gpu, codec)
  ELSE IF Includes(errorOutput, <<"Encoder">>) /\ Includes(errorOutput, <<"not", "found">>)
    THEN GPUError("encoder_unavailable", "encoder-not-found", gpu, codec)
  ELSE IF Includes(errorOutput, <<"DLL">>) \/ Includes(errorOutput, <<"LoadLibrary">>)
    THEN GPUError("driver_error", "library-load", gpu, codec)
  ELSE NoGPUError

\* a variant of checkGPUEncoderSupport that never consults the probed set
checkAlwaysAvailable(gpu, codec, encoders) ==
  [available |-> TRUE, encoder |-> GPU_ENCODERS[codec][gpu], error |-> NoGPUError]

\* checkGPUEncoderSupport, given the set getAvailableEncoders resolves to
checkGPUEncoderSupport(gpu, codec, encoders) ==
  IF gpu = "cpu"
    THEN [available |-> TRUE, encoder |-> GPU_ENCODERS[codec].cpu, error |-> NoGPUError]
  ELSE IF gpu \notin DOMAIN GPU_ENCODERS[codec] \/ GPU_ENCODERS[codec][gpu] = ""
    THEN [available |-> FALSE, encoder |-> "",
          error |-> GPUError("encoder_unavailable", "no-entry", gpu, codec)]
  ELSE LET encoder == GPU_ENCODERS[codec][gpu]
       IN  IF encoder \notin encoders
             THEN [available |-> FALSE, encoder |-> encoder,
                   error |-> GPUError("encoder_unavailable", "preflight", gpu, codec)]
             ELSE [available |-> TRUE, encoder |-> encoder, error |-> NoGPUError]

\* ------------------------------------------------------------ environment
\* what `ffmpeg -encoders` can list: a build with, and one without, av1_nvenc
FullBuild == {"libx264", "libx265", "libsvtav1", "h264_nvenc", "hevc_nvenc", "av1_nvenc"}

PartialBuild == {"libx264", "libx265", "libsvtav1", "h264_nvenc", "hevc_nvenc"}

\* the installations and selections the runs start from: the platform, the selected
\* file, the value of the preset select (a preset id, or '' before the list is
\* loaded), the encoders of the installed binary, settings.gpu and
\* settings.outputDirectory
Environments ==
  { [platform |-> "linux", selectedFile |-> <<"/", "v", "/", "a", ".", "mkv">>,
     presetSelect |-> "av1-balanced", binaryEncoders |-> FullBuild,
     gpu |-> "nvidia", outputDirectory |-> << >>],
    [platform |-> "win32", selectedFile |-> <<"/", "v", "/", "a", ".", "b", ".", "mov">>,
     presetSelect |-> "av1-balanced", binaryEncoders |-> PartialBuild,
     gpu |-> "nvidia", outputDirectory |-> <<"/", "out">>],
    [platform |-> "win32", selectedFile |-> <<"/", "v", "/", "a", ".", "b", ".", "mov">>,
     presetSelect |-> "remux-mkv", binaryEncoders |-> PartialBuild,
     gpu |-> "nvidia", outputDirectory |-> << >>],
    [platform |-> "linux", selectedFile |-> <<"/", "v", "/", "a", ".", "mkv">>,
     presetSelect |-> "audio-mp3", binaryEncoders |-> FullBuild,
     gpu |-> "amd", outputDirectory |-> << >>],
    [platform |-> "darwin", selectedFile |-> <<"/", "v", "/", "a", ".", "mkv">>,
     presetSelect |-> "", binaryEncoders |-> FullBuild,
     gpu |-> "cpu", outputDirectory |-> <<"/", "out">>] }

\* the i-th chunk the transcoding process writes to stderr
StderrChunk(i) ==
  IF i % 2 = 1 THEN <<"No", "capable", "devices", "found">>
  ELSE <<"Error", "initializing", "output", "stream">>

MaxStderrChunks == 2

\* the sequences of chunks a process can have written when it closes
StderrOutputs == {[i \in 1..n |-> StderrChunk(i)] : n \in 0..MaxStderrChunks}

\* exit codes of a process that exits by itself
ExitCodes == {0, 1}

\* the negative errno Node reports as exit code when the spawn fails (ENOENT)
SpawnFailureCode == 0 - 2

\* a variant of the cancellation message that a rule of parseGPUError matches
UnsupportedMessage == <<"Conversion", "unsupported">>

CancelledMessage == <<"Conversion", "cancelled">>

SpawnErrorMessage == <<"spawn", "ffmpeg", "ENOENT">>

KillErrorMessage == <<"kill", "EPERM">>

InvalidPresetMessage == <<"Invalid", "preset", "selected">>

\* ------------------------------------------------------------------ state
VARIABLES
  platform,             \* process.platform
  selectedFile,         \* renderer: the selected input file
  presetSelect,         \* renderer: the value of the preset select
  binaryEncoders,       \* the encoder names the installed binary lists
  settings,             \* main: settings.gpu, settings.outputDirectory
  encoderCache,         \* ffmpeg.ts: {} for null, {S} for the cached set S
  pc,                   \* where the start-conversion handler of each run stands
  run,                  \* what each run's handler captured: preset id, gpu, output path
  probe,                \* each run's `ffmpeg -encoders` process
  proc,                 \* each run's transcoding process
  exitCode,             \* ChildProcess.exitCode: {} for null, {c} for code c
  fired,                \* the terminal events emitted so far on each process
  currentProcess,       \* ffmpeg.ts: {} for null, {p}
  outputPathByProcess,  \* ffmpeg.ts: Map<ChildProcess, string>
  canceledProcesses,    \* ffmpeg.ts: Set<ChildProcess>
  timers,               \* grace timers armed and not yet fired, per process
  files,                \* the output files that exist
  result,               \* what each run's convertVideo promise resolved to
  notif,                \* the terminal notifications sent to the renderer, per run
  isConversionActive,   \* main.ts
  isConverting,         \* renderer
  gpuModal,             \* renderer: the GPU error modal is shown
  started,              \* number of start-conversion requests issued
  cancelSeen,           \* history: processes cancelConversion found as currentProcess
  last,                 \* history: what the latest handler did
  call,                 \* one call of checkGPUEncoderSupport or parseGPUError
  progress,             \* one transcoding process seen from its stream listeners
  decoderCache,         \* ffmpeg.ts: {} for null, {S} for the cached set S
  capability,           \* the calls of getAvailableEncoders / getAvailableDecoders
  plan,                 \* one call of getHardwareDecodeArgs
  invocation,           \* one use of the preset list: a lookup, or an argument vector
  updater               \* updater.ts: its module state and the autoUpdater it drives

envVars == <<platform, selectedFile, presetSelect, binaryEncoders>>

vars == <<platform, selectedFile, presetSelect, binaryEncoders, settings, encoderCache, pc, run, probe,
          proc, exitCode, fired, currentProcess,
          outputPathByProcess, canceledProcesses, timers, files, result, notif,
          isConversionActive, isConverting, gpuModal, started, cancelSeen, last,
          call, progress, decoderCache, capability, plan, invocation, updater>>

\* the state of the functions checked apart from the orchestration
libraryVars == <<decoderCache, capability, plan, invocation, updater>>

\* the state the orchestration acts on
mainVars == <<platform, selectedFile, presetSelect, binaryEncoders, settings, encoderCache,
              pc, run, probe, proc, exitCode, fired, currentProcess,
              outputPathByProcess, canceledProcesses, timers, files, result, notif,
              isConversionActive, isConverting, gpuModal, started, cancelSeen, last>>

\* no call of the encoder resolver made yet
NoCall ==
  [op |-> "none", gpu |-> "cpu", codec |-> "h264", fragments |-> {}, state |-> "done",
   spawned |-> FALSE, probed |-> {}, result |-> [type |-> "null"]]

\* convertVideo's locals before the metadata probe: totalDuration {} for not yet
\* probed, no sample sent, the promise pending; arrived: the stdout lines and
\* stderr chunks the listeners were handed, in order; terminal: the event that
\* resolved the promise; closed: 'close' was emitted; late: the samples sent
\* after the promise was resolved; info, fallback: how getVideoInfo and getVideoDuration settled ("none" for
\* not called); decodeArgs: the hardware-decode arguments of the command line
NoProgress ==
  [totalDuration |-> {}, samples |-> << >>, timed |-> 0, chunks |-> 0,
   result |-> [pending |-> TRUE], arrived |-> << >>, terminal |-> "none",
   closed |-> FALSE, late |-> 0,
   info |-> "none", fallback |-> "none", inputCodec |-> "undefined",
   decodeArgs |-> << >>]

\* no call of getAvailableEncoders / getAvailableDecoders made yet; last is what
\* the latest step did
NoCapability ==
  [probes |-> << >>,
   last |-> [op |-> "none", kind |-> "encoders", cached |-> {}, spawned |-> FALSE,
             via |-> "none", settled |-> "pending", value |-> {}]]

\* no call of getHardwareDecodeArgs made yet; checked: the decoder sets that
\* checkDecoderAvailable consulted, args: {} while pending, {list} once returned
NoPlan ==
  [op |-> "none", gpu |-> "cpu", codec |-> "undefined", deviceExists |-> FALSE,
   state |-> "done", probe |-> "none", checked |-> {}, args |-> {}]

\* the preset list not used yet
NoInvocation ==
  [op |-> "none", id |-> "", gpu |-> "cpu", codec |-> "undefined",
   found |-> NoPreset, decodeArgs |-> << >>, presetArgs |-> << >>,
   outputPath |-> << >>, args |-> << >>]

\* updater.ts before initUpdater: no window, the flags false; registry is what
\* `reg query` answered, listeners the number of handlers registered per event,
\* checks the number of calls of autoUpdater.checkForUpdates, pending those that
\* have not answered, calls the number of calls of the two exported checks
NoUpdater ==
  [mainWindow |-> FALSE, registry |-> << >>, updatesDisabled |-> FALSE,
   updateAvailable |-> FALSE, silentCheck |-> FALSE,
   inits |-> 0, listeners |-> 0, checks |-> 0, pending |-> 0, calls |-> 0,
   dialogs |-> 0, answered |-> {}]

NoResult == [pending |-> TRUE]

\* wrote: the output file that exists was created by the run's process
NoRun ==
  [presetId |-> "", gpu |-> "cpu", probed |-> {}, began |-> FALSE, outputPath |-> << >>,
   wrote |-> FALSE]

EmptyLog ==
  [op |-> "none", proc |-> {}, force |-> FALSE, alive |-> FALSE, term |-> "none",
   errorOutput |-> << >>, chunks |-> << >>, kills |-> 0, killKinds |-> {}, hitExited |-> FALSE, timerArmed |-> FALSE, unlinkThrew |-> FALSE,
   resolved |-> {}, signaled |-> {}, active |-> FALSE]

\* the mutable state as one value, so that a handler is a function on it
World ==
  [settings |-> settings, encoderCache |-> encoderCache, pc |-> pc, run |-> run,
   probe |-> probe, proc |-> proc, exitCode |-> exitCode, fired |-> fired,
   currentProcess |-> currentProcess, outputPathByProcess |-> outputPathByProcess,
   canceledProcesses |-> canceledProcesses, timers |-> timers, files |-> files,
   result |-> result, notif |-> notif, isConversionActive |-> isConversionActive,
   isConverting |-> isConverting, gpuModal |-> gpuModal, started |-> started,
   cancelSeen |-> cancelSeen, last |-> EmptyLog]

\* the primed variables take the fields of the one world the handler returned
Apply(world) ==
  \E w \in {world} :
     /\ settings' = w.settings
     /\ encoderCache' = w.encoderCache
     /\ pc' = w.pc
     /\ run' = w.run
     /\ probe' = w.probe
     /\ proc' = w.proc
     /\ exitCode' = w.exitCode
     /\ fired' = w.fired
     /\ currentProcess' = w.currentProcess
     /\ outputPathByProcess' = w.outputPathByProcess
     /\ canceledProcesses' = w.canceledProcesses
     /\ timers' = w.timers
     /\ files' = w.files
     /\ result' = w.result
     /\ notif' = w.notif
     /\ isConversionActive' = w.isConversionActive
     /\ isConverting' = w.isConverting
     /\ gpuModal' = w.gpuModal
     /\ started' = w.started
     /\ cancelSeen' = w.cancelSeen
     /\ last' = w.last
     /\ UNCHANGED <<envVars, call, progress, libraryVars>>

Init ==
  /\ \E e \in Environments :
        /\ platform = e.platform
        /\ selectedFile = e.selectedFile
        /\ presetSelect = e.presetSelect
        /\ binaryEncoders = e.binaryEncoders
        /\ settings = [gpu |-> e.gpu, outputDirectory |-> e.outputDirectory]
  /\ encoderCache = {}
  /\ pc = [r \in Procs |-> "idle"]
  /\ run = [r \in Procs |-> NoRun]
  /\ probe = [r \in Procs |-> "none"]
  /\ proc = [r \in Procs |-> "none"]
  /\ exitCode = [r \in Procs |-> {}]
  /\ fired = [r \in Procs |-> {}]
  /\ currentProcess = {}
  /\ outputPathByProcess = << >>
  /\ canceledProcesses = {}
  /\ timers = [r \in Procs |-> 0]
  /\ files = {}
  /\ result = [r \in Procs |-> NoResult]
  /\ notif = [r \in Procs |-> << >>]
  /\ isConversionActive = FALSE
  /\ isConverting = FALSE
  /\ gpuModal = FALSE
  /\ started = 0
  /\ cancelSeen = {}
  /\ last = EmptyLog
  /\ call = NoCall
  /\ progress = NoProgress
  /\ decoderCache = {}
  /\ capability = NoCapability
  /\ plan = NoPlan
  /\ invocation = NoInvocation
  /\ updater = NoUpdater

\* --------------------------------------------------------------- handlers
\* a variant of Concat that puts each new chunk in front of the text
ConcatReversed(chunks) ==
  LET RECURSIVE cat(_)
      cat(i) == IF i > Len(chunks) THEN << >> ELSE cat(i + 1) \o chunks[i]
  IN  cat(1)

\* errorOutput += line, for the chunks in their order of arrival
Concat(chunks) ==
  LET RECURSIVE cat(_)
      cat(i) == IF i > Len(chunks) THEN << >> ELSE chunks[i] \o cat(i + 1)
  IN  cat(1)

\* a variant of IsVideoPreset that takes every preset for a video preset
IsAnyPreset(preset) == TRUE

IsVideoPreset(preset) == preset.category \in VideoCategories

\* webContents.send of a terminal notification, and the renderer's listener for it
\* (onConversionComplete / onGPUEncoderError)
Send(w, r, msg) ==
  [w EXCEPT !.notif[r] = Append(@, msg),
            !.isConverting = FALSE,
            !.gpuModal = IF msg.channel = "gpu-encoder-error" THEN TRUE ELSE @]

\* a variant of AfterConvert without the return that follows the GPU error
AfterConvertBoth(w, r, res) ==
  LET preset == getPresetById(w.run[r].presetId)
      gpu == w.run[r].gpu
      w1 == [w EXCEPT !.isConversionActive = FALSE, !.pc[r] = "done"]
      gpuError == IF ~res.success /\ res.error # << >> /\ gpu # "cpu" /\ IsVideoPreset(preset)
                  THEN parseGPUError(res.error, gpu, preset.category)
                  ELSE NoGPUError
      w2 == IF gpuError # NoGPUError
            THEN Send(w1, r, [channel |-> "gpu-encoder-error", error |-> gpuError])
            ELSE w1
  IN  Send(w2, r, [channel |-> "conversion-complete", result |-> res])

\* main.ts: what follows `await convertVideo(...)`
AfterConvert(w, r, res) ==
  LET preset == getPresetById(w.run[r].presetId)
      gpu == w.run[r].gpu
      w1 == [w EXCEPT !.isConversionActive = FALSE, !.pc[r] = "done"]
      gpuError == IF ~res.success /\ res.error # << >> /\ gpu # "cpu" /\ IsVideoPreset(preset)
                  THEN parseGPUError(res.error, gpu, preset.category)
                  ELSE NoGPUError
  IN  IF gpuError # NoGPUError
      THEN Send(w1, r, [channel |-> "gpu-encoder-error", error |-> gpuError])
      ELSE Send(w1, r, [channel |-> "conversion-complete", result |-> res])

\* a variant of Resolve in which a settled promise settles again
ResolveAgain(w, r, res) ==
  AfterConvert([w EXCEPT !.result[r] = res, !.last.resolved = @ \cup {r}], r, res)

\* resolve(res) on the promise of run r: a settled promise ignores it
Resolve(w, r, res) ==
  IF w.result[r] # NoResult THEN w
  ELSE AfterConvert([w EXCEPT !.result[r] = res, !.last.resolved = @ \cup {r}], r, res)

\* a variant of WasCanceled that never finds the mark
neverCanceled(w, p) == FALSE

\* canceledProcesses.has(ffmpegProcess)
WasCanceled(w, p) == p \in w.canceledProcesses

\* a variant of OnCanceled without the try / catch around unlinkSync: the exception
\* leaves the listener before resolve
OnCanceledUncaught(w, p, outputToDelete, unlinkOk) ==
  LET exists == outputToDelete # {} /\ outputToDelete \subseteq w.files
  IN  IF exists /\ ~unlinkOk
      THEN [w EXCEPT !.last.unlinkThrew = TRUE]
      ELSE Resolve([w EXCEPT !.files = @ \ outputToDelete], p,
                   [success |-> FALSE, outputPath |-> w.run[p].outputPath,
                    error |-> CancelledMessage])

\* fs.unlinkSync(outputToDelete) returning: the file is gone, whoever created it
Unlink(w, outputToDelete) ==
  [w EXCEPT !.files = @ \ outputToDelete,
            !.run = [r \in Procs |->
                       IF w.run[r].outputPath \in outputToDelete
                       THEN [w.run[r] EXCEPT !.wrote = FALSE] ELSE w.run[r]]]

\* the `if (wasCanceled)` branch of both listeners: delete the partial output if it
\* exists, then resolve
OnCanceled(w, p, outputToDelete, unlinkOk) ==
  LET exists == outputToDelete # {} /\ outputToDelete \subseteq w.files
      w2 == IF ~exists THEN w
            ELSE IF unlinkOk
            THEN Unlink(w, outputToDelete)
            ELSE [w EXCEPT !.last.unlinkThrew = TRUE]
  IN  Resolve(w2, p, [success |-> FALSE, outputPath |-> w.run[p].outputPath,
                      error |-> CancelledMessage])

\* the 'close' and 'error' listeners of convertVideo
\* code: {} for null, {c}; errorOutput: the stderr chunks accumulated by the 'data'
\* listener; message: err.message; unlinkOk: whether unlinkSync returns
OnTerminal(w, p, kind, code, errorOutput, message, unlinkOk) ==
  LET outputPath == w.run[p].outputPath
      outputToDelete == IF p \in DOMAIN w.outputPathByProcess
                        THEN {w.outputPathByProcess[p]} ELSE {}
      wasCanceled == WasCanceled(w, p)
      w1 == [w EXCEPT !.currentProcess = IF @ = {p} THEN {} ELSE @,
                      !.outputPathByProcess =
                          [q \in (DOMAIN @) \ {p} |-> w.outputPathByProcess[q]],
                      !.canceledProcesses = @ \ {p},
                      !.fired[p] = @ \cup {kind}]
  IN  IF wasCanceled
      THEN OnCanceled(w1, p, outputToDelete, unlinkOk)
      ELSE IF kind = "close"
      THEN IF code = {0}
           THEN Resolve(w1, p, [success |-> TRUE, outputPath |-> outputPath])
           ELSE Resolve(w1, p, [success |-> FALSE, outputPath |-> outputPath,
                                error |-> Concat(errorOutput)])
      ELSE Resolve(w1, p, [success |-> FALSE, outputPath |-> outputPath,
                           error |-> message])

\* convertVideo from the spawn on: the process is registered; outcome "ENOENT" is a
\* spawn failure, whose 'error' event is emitted on the next tick, before any other
\* handler runs, and leaves the negative errno as exit code
SpawnTranscode(w, r, outcome) ==
  LET w1 == [w EXCEPT !.proc[r] = IF outcome = "ok" THEN "alive" ELSE "exited",
                      !.currentProcess = {r},
                      !.outputPathByProcess =
                          [q \in (DOMAIN @) \cup {r} |->
                             IF q = r THEN w.run[r].outputPath
                             ELSE w.outputPathByProcess[q]],
                      !.pc[r] = "running"]
  IN  IF outcome = "ok" THEN w1
      ELSE OnTerminal([w1 EXCEPT !.exitCode[r] = {SpawnFailureCode}],
                      r, "error", {}, << >>, SpawnErrorMessage, TRUE)

\* main.ts after the pre-flight check, convertVideo up to its first await
BeginConvert(w, r) ==
  LET preset == getPresetById(w.run[r].presetId)
      outputDir == IF w.settings.outputDirectory # << >>
                   THEN w.settings.outputDirectory ELSE dirname(selectedFile)
  IN  [w EXCEPT !.isConversionActive = TRUE,
                !.run[r].began = TRUE,
                !.run[r].outputPath = OutputPathOf(selectedFile, outputDir, preset),
                !.pc[r] = "info"]

\* main.ts: what follows `await checkGPUEncoderSupport(gpu, codec)`, given the set
\* getAvailableEncoders resolved to
AfterPreflight(w, r, encoders) ==
  LET preset == getPresetById(w.run[r].presetId)
      encoderCheck == checkGPUEncoderSupport(w.run[r].gpu, preset.category, encoders)
      w1 == [w EXCEPT !.run[r].probed = {encoders}]
  IN  IF ~encoderCheck.available /\ encoderCheck.error # NoGPUError
      THEN Send([w1 EXCEPT !.pc[r] = "done"], r,
                [channel |-> "gpu-encoder-error", error |-> encoderCheck.error])
      ELSE BeginConvert(w1, r)

\* ipcMain.handle('start-conversion') up to its first await
StartHandler(w, r, presetId) ==
  LET preset == getPresetById(presetId)
      gpu == w.settings.gpu
      w1 == [w EXCEPT !.run[r] = [NoRun EXCEPT !.presetId = presetId, !.gpu = gpu]]
  IN  IF preset = NoPreset
      THEN Send([w1 EXCEPT !.pc[r] = "done"], r,
                [channel |-> "conversion-complete",
                 result |-> [success |-> FALSE, outputPath |-> << >>,
                             error |-> InvalidPresetMessage]])
      ELSE IF IsVideoPreset(preset) /\ gpu # "cpu"
      THEN IF w.encoderCache # {}
           THEN AfterPreflight(w1, r, CHOOSE S \in w.encoderCache : TRUE)
           ELSE [w1 EXCEPT !.pc[r] = "preflight", !.probe[r] = "pending"]
      ELSE BeginConvert(w1, r)

\* ChildProcess.pid is undefined when the spawn failed
HasPid(w, p) == w.proc[p] # "none" /\ w.exitCode[p] # {SpawnFailureCode}

\* a variant of forceKillProcess that attempts nothing
forceKillNever(w, p, throws) == w

\* forceKillProcess; throws: whether the first attempt (taskkill, or kill) throws.
\* kill() on a ChildProcess that has exited finds no handle and sends nothing;
\* taskkill is given the pid and acts whether or not the process has exited
forceKillProcess(w, p, throws) ==
  IF w.exitCode[p] # {} THEN w
  ELSE LET first == IF platform = "win32" /\ HasPid(w, p) THEN "taskkill" ELSE "SIGKILL"
           kinds == IF first = "taskkill" /\ throws THEN {"taskkill", "SIGKILL"} ELSE {first}
       IN  [w EXCEPT !.last.kills = @ + Cardinality(kinds),
                     !.last.killKinds = @ \cup kinds,
                     !.last.signaled = @ \cup {p},
                     !.last.hitExited = @ \/ (w.proc[p] # "alive" /\ first = "taskkill")]

\* a variant of cancelConversion without the test of currentProcess: it marks every
\* process that is still registered
cancelRegistered(w, force, term, throws, unlinkOk) ==
  [w EXCEPT !.canceledProcesses = @ \cup DOMAIN w.outputPathByProcess]

\* cancelConversion(force); term: what kill('SIGTERM') does ("delivered", "throws",
\* "error": it emits 'error' on the process, "nohandle": the process has exited);
\* last.signaled: the processes 'q', SIGTERM or a kill was directed at
cancelConversion(w, force, term, throws, unlinkOk) ==
  IF w.currentProcess = {} THEN w
  ELSE
    LET processToKill == CHOOSE p \in w.currentProcess : TRUE
        alive == w.proc[processToKill] = "alive"
        w1 == [w EXCEPT !.canceledProcesses = @ \cup {processToKill},
                        !.cancelSeen = @ \cup {processToKill},
                        !.last.signaled = @ \cup {processToKill},
                        !.last.proc = {processToKill},
                        !.last.alive = alive,
                        !.last.term = term]
        w2 == IF term = "error"
              THEN OnTerminal(w1, processToKill, "error", {}, << >>, KillErrorMessage,
                              unlinkOk)
              ELSE IF term = "throws" /\ force
              THEN forceKillProcess(w1, processToKill, throws)
              ELSE w1
    IN  IF force
        THEN forceKillProcess(w2, processToKill, throws)
        ELSE [w2 EXCEPT !.timers[processToKill] = @ + 1, !.last.timerArmed = TRUE]

\* a variant of the grace timer's callback that kills nothing
OnGraceTimerIdle(w, processToKill, throws) == w

\* a variant of the grace timer's callback that kills whatever process is current
\* when it fires
OnGraceTimerKillsCurrent(w, processToKill, throws) ==
  IF w.currentProcess # {} /\ \A p \in w.currentProcess : w.exitCode[p] = {}
  THEN forceKillProcess(w, CHOOSE p \in w.currentProcess : TRUE, throws)
  ELSE w

\* the grace timer's callback
OnGraceTimer(w, processToKill, throws) ==
  IF w.currentProcess = {processToKill} /\ w.exitCode[processToKill] = {}
  THEN forceKillProcess(w, processToKill, throws)
  ELSE w

\* ---------------------------------------------------------------- actions
SpawnOutcomes == {"ok", "ENOENT"}

\* what kill('SIGTERM') can do on the current process
TermOutcomes ==
  IF currentProcess = {} THEN {"none"}
  ELSE IF \E p \in currentProcess : proc[p] = "alive"
  THEN {"delivered", "throws", "error"}
  ELSE {"nohandle"}

\* renderer startConversion (convert button or Enter) and the handler it invokes
StartConversion ==
  /\ ~isConverting
  /\ ~gpuModal
  /\ started < MaxRuns
  /\ LET r == started + 1
         w0 == [World EXCEPT !.started = r, !.isConverting = TRUE]
     IN  Apply(StartHandler(w0, r, presetSelect))

\* renderer showGPUErrorModal, confirm: switch to CPU and start again
RetryWithCPU ==
  /\ gpuModal
  /\ started < MaxRuns
  /\ LET r == started + 1
         w0 == [World EXCEPT !.started = r, !.isConverting = TRUE, !.gpuModal = FALSE,
                             !.settings.gpu = "cpu"]
     IN  Apply(StartHandler(w0, r, presetSelect))

\* renderer showGPUErrorModal, cancel
DismissModal ==
  /\ gpuModal
  /\ Apply([World EXCEPT !.gpuModal = FALSE])

\* a variant of cancel-conversion that leaves isConversionActive as it is
ConfirmCancelKeepsFlag(term, throws, unlinkOk) ==
  /\ isConverting
  /\ ~gpuModal
  /\ \A p \in currentProcess : timers[p] < MaxTimers
  /\ LET w0 == [World EXCEPT !.last.op = "cancel"]
         w1 == cancelConversion(w0, FALSE, term, throws, unlinkOk)
     IN  Apply([w1 EXCEPT !.isConverting = FALSE])

\* renderer cancelConversion (convert button while converting, confirmed) and
\* ipcMain.handle('cancel-conversion')
ConfirmCancel(term, throws, unlinkOk) ==
  /\ isConverting
  /\ ~gpuModal
  /\ \A p \in currentProcess : timers[p] < MaxTimers
  /\ LET w0 == [World EXCEPT !.last.op = "cancel"]
         w1 == cancelConversion(w0, FALSE, term, throws, unlinkOk)
     IN  Apply([w1 EXCEPT !.isConversionActive = FALSE, !.isConverting = FALSE])

\* a direct call of the exported cancelConversion(true)
ForcedCancel(term, throws, unlinkOk) ==
  /\ LET w0 == [World EXCEPT !.last.op = "cancel", !.last.force = TRUE]
     IN  Apply(cancelConversion(w0, TRUE, term, throws, unlinkOk))

\* the setTimeout callback armed by cancelConversion
GraceTimer(p, throws) ==
  /\ timers[p] > 0
  /\ LET w0 == [World EXCEPT !.timers[p] = @ - 1, !.last.op = "timer",
                             !.last.proc = {p}, !.last.alive = (proc[p] = "alive")]
     IN  Apply(OnGraceTimer(w0, p, throws))

\* getAvailableEncoders: 'close' of the `ffmpeg -encoders` process
EncodersProbeClose(r) ==
  /\ probe[r] \in {"pending", "errored"}
  /\ LET encoders == IF probe[r] = "pending" THEN binaryEncoders ELSE {}
         w0 == [World EXCEPT !.probe[r] = "closed", !.encoderCache = {encoders}]
     IN  Apply(IF pc[r] = "preflight" THEN AfterPreflight(w0, r, encoders) ELSE w0)

\* getAvailableEncoders: 'error' of the `ffmpeg -encoders` process
EncodersProbeError(r) ==
  /\ probe[r] = "pending"
  /\ Apply(AfterPreflight([World EXCEPT !.probe[r] = "errored"], r, {}))

\* convertVideo: getVideoInfo settles
VideoInfoClose(r, ok, outcome) ==
  /\ pc[r] = "info"
  /\ Apply(IF ok THEN SpawnTranscode(World, r, outcome)
               ELSE [World EXCEPT !.pc[r] = "duration"])

\* convertVideo: getVideoDuration settles
VideoDurationClose(r, outcome) ==
  /\ pc[r] = "duration"
  /\ Apply(SpawnTranscode(World, r, outcome))

\* the transcoding process creates its output file
ProcWrite(p) ==
  /\ proc[p] = "alive"
  /\ run[p].outputPath \notin files
  /\ Apply([World EXCEPT !.files = @ \cup {run[p].outputPath}, !.run[p].wrote = TRUE])

\* the transcoding process exits by itself with a code
ProcExit(p, code) ==
  /\ proc[p] = "alive"
  /\ Apply([World EXCEPT !.proc[p] = "exited", !.exitCode[p] = {code}])

\* the transcoding process is terminated by a signal (one of cancelConversion, or
\* one from outside the application): exitCode stays null
ProcKilled(p) ==
  /\ proc[p] = "alive"
  /\ Apply([World EXCEPT !.proc[p] = "exited"])

\* convertVideo: the 'close' listener, after the stderr 'data' listener has
\* accumulated the chunks the process wrote (none when the spawn failed);
\* last.active: main's isConversionActive when the listener is entered
ProcClose(p, errorOutput, unlinkOk) ==
  /\ proc[p] = "exited"
  /\ HasPid(World, p) \/ errorOutput = << >>
  /\ LET w0 == [World EXCEPT !.proc[p] = "closed", !.last.op = "close", !.last.proc = {p},
                             !.last.errorOutput = Concat(errorOutput),
                             !.last.chunks = errorOutput,
                             !.last.active = isConversionActive]
     IN  Apply(OnTerminal(w0, p, "close", exitCode[p], errorOutput, << >>, unlinkOk))

\* convertVideo: the 'error' listener, for an 'error' emitted after 'close'
LateError(p, unlinkOk) ==
  /\ proc[p] = "closed"
  /\ "error" \notin fired[p]
  /\ LET w0 == [World EXCEPT !.last.op = "error", !.last.proc = {p}]
     IN  Apply(OnTerminal(w0, p, "error", {}, << >>, KillErrorMessage, unlinkOk))

\* whether the outcome of a kill attempt, resp. of unlinkSync, can matter
Throws == IF currentProcess = {} THEN {FALSE} ELSE BOOLEAN

UnlinkOutcomes(p) ==
  IF p \in DOMAIN outputPathByProcess /\ outputPathByProcess[p] \in files
  THEN BOOLEAN ELSE {TRUE}

CancelUnlinkOutcomes ==
  IF \E p \in currentProcess : UnlinkOutcomes(p) = BOOLEAN THEN BOOLEAN ELSE {TRUE}

Next ==
  \/ StartConversion
  \/ RetryWithCPU
  \/ DismissModal
  \/ \E term \in TermOutcomes, unlinkOk \in CancelUnlinkOutcomes :
       ConfirmCancel(term, FALSE, unlinkOk)
  \/ \E term \in TermOutcomes, throws \in Throws, unlinkOk \in CancelUnlinkOutcomes :
       ForcedCancel(term, throws, unlinkOk)
  \/ \E p \in Procs, throws \in BOOLEAN : GraceTimer(p, throws)
  \/ \E r \in Procs : EncodersProbeClose(r)
  \/ \E r \in Procs : EncodersProbeError(r)
  \/ \E r \in Procs, ok \in BOOLEAN, outcome \in SpawnOutcomes : VideoInfoClose(r, ok, outcome)
  \/ \E r \in Procs, outcome \in SpawnOutcomes : VideoDurationClose(r, outcome)
  \/ \E p \in Procs : ProcWrite(p)
  \/ \E p \in Procs, code \in ExitCodes : ProcExit(p, code)
  \/ \E p \in Procs : ProcKilled(p)
  \/ \E p \in Procs, errorOutput \in StderrOutputs :
       \E unlinkOk \in UnlinkOutcomes(p) : ProcClose(p, errorOutput, unlinkOk)
  \/ \E p \in Procs : LateError(p, TRUE)

Spec == Init /\ [][Next]_vars

\* ------------------------------------------------------- one run, canceled
\* a kill that forceKillProcess has sent terminates the process: it has exited,
\* by a signal, when the handler returns
Terminated(w) ==
  IF w.last.kills = 0 THEN w
  ELSE [w EXCEPT !.proc = [p \in Procs |->
                            IF p \in w.last.signaled /\ w.proc[p] = "alive"
                            THEN "exited" ELSE w.proc[p]]]

\* the first start-conversion, with no other run before or after it
FirstConversion ==
  /\ started = 0
  /\ StartConversion

\* cancelConversion(true) whose kill terminates the process
KillingForcedCancel(term, throws, unlinkOk) ==
  /\ LET w0 == [World EXCEPT !.last.op = "cancel", !.last.force = TRUE]
     IN  Apply(Terminated(cancelConversion(w0, TRUE, term, throws, unlinkOk)))

\* the setTimeout callback whose kill terminates the process
KillingGraceTimer(p, throws) ==
  /\ timers[p] > 0
  /\ LET w0 == [World EXCEPT !.timers[p] = @ - 1, !.last.op = "timer",
                             !.last.proc = {p}, !.last.alive = (proc[p] = "alive")]
     IN  Apply(Terminated(OnGraceTimer(w0, p, throws)))

\* the timers that are armed fire
TimersFire == \E p \in Procs, throws \in BOOLEAN : KillingGraceTimer(p, throws)

\* the 'close' event of a process that has exited is emitted
CloseEmitted ==
  \E p \in Procs, errorOutput \in StderrOutputs :
     \E unlinkOk \in UnlinkOutcomes(p) : ProcClose(p, errorOutput, unlinkOk)

CancelNext ==
  \/ FirstConversion
  \/ DismissModal
  \/ \E term \in TermOutcomes, unlinkOk \in CancelUnlinkOutcomes :
       ConfirmCancel(term, FALSE, unlinkOk)
  \/ \E term \in TermOutcomes, throws \in Throws, unlinkOk \in CancelUnlinkOutcomes :
       KillingForcedCancel(term, throws, unlinkOk)
  \/ TimersFire
  \/ \E r \in Procs : EncodersProbeClose(r)
  \/ \E r \in Procs : EncodersProbeError(r)
  \/ \E r \in Procs, ok \in BOOLEAN, outcome \in SpawnOutcomes : VideoInfoClose(r, ok, outcome)
  \/ \E r \in Procs, outcome \in SpawnOutcomes : VideoDurationClose(r, outcome)
  \/ \E p \in Procs : ProcWrite(p)
  \/ \E p \in Procs, code \in ExitCodes : ProcExit(p, code)
  \/ \E p \in Procs : ProcKilled(p)
  \/ CloseEmitted
  \/ \E p \in Procs : LateError(p, TRUE)

\* the event loop delivers the grace timer and the 'close' event
CancelSpec ==
  /\ Init
  /\ [][CancelNext]_vars
  /\ WF_vars(TimersFire)
  /\ WF_vars(CloseEmitted)

\* --------------------------------------------------------------- resolver
\* a variant of NeedsProbe that asks the binary for every vendor
AlwaysProbes(gpu, codec) == TRUE

\* checkGPUEncoderSupport reaches `await checkEncoderAvailable(encoder)`: not for
\* cpu, and not for a pair the table has no encoder for
NeedsProbe(gpu, codec) ==
  /\ gpu # "cpu"
  /\ gpu \in DOMAIN GPU_ENCODERS[codec]
  /\ GPU_ENCODERS[codec][gpu] # ""

\* the diagnostics a failed transcode can carry, by name
Fragments ==
  [nvinit      |-> <<"No", "capable", "devices", "found">>,
   unsupported |-> <<"unsupported">>,
   amf         |-> <<"AMF", "failed">>,
   notsupp     |-> <<"not", "supported">>,
   qsv         |-> <<"QSV", "error">>,
   vtb         |-> <<"videotoolbox", "failed">>,
   encoder     |-> <<"Encoder", "abc", "not", "found">>,
   library     |-> <<"LoadLibrary">>,
   other       |-> <<"Some", "unrelated", "line">>]

FragmentOrder ==
  <<"other", "library", "encoder", "vtb", "qsv", "notsupp", "amf", "unsupported", "nvinit">>

MaxFragments == 2

\* the stderr text made of the chosen fragments
TextOf(chosen) ==
  LET RECURSIVE cat(_)
      cat(i) == IF i > Len(FragmentOrder) THEN << >>
                ELSE (IF FragmentOrder[i] \in chosen THEN Fragments[FragmentOrder[i]]
                      ELSE << >>) \o cat(i + 1)
  IN  cat(1)

resolverFrame ==
  <<platform, selectedFile, presetSelect, binaryEncoders, settings,
    pc, run, probe, proc, exitCode, fired, currentProcess,
    outputPathByProcess, canceledProcesses, timers, files, result, notif,
    isConversionActive, isConverting, gpuModal, started, cancelSeen, last, progress, libraryVars>>

\* a call of checkGPUEncoderSupport(gpu, codec) up to its first await:
\* getAvailableEncoders answers from the cache, or spawns `ffmpeg -encoders`
ResolverCheck(gpu, codec) ==
  /\ call.op = "none"
  /\ LET c == [NoCall EXCEPT !.op = "check", !.gpu = gpu, !.codec = codec]
     IN  call' = IF ~NeedsProbe(gpu, codec)
                 THEN [c EXCEPT !.result = checkGPUEncoderSupport(gpu, codec, {})]
                 ELSE IF encoderCache # {}
                 THEN [c EXCEPT !.probed = encoderCache,
                                !.result =
                          checkGPUEncoderSupport(gpu, codec,
                                                 CHOOSE S \in encoderCache : TRUE)]
                 ELSE [c EXCEPT !.state = "probing", !.spawned = TRUE]
  /\ UNCHANGED <<resolverFrame, encoderCache>>

\* getAvailableEncoders: 'close' of the probe
ResolverProbeClose ==
  /\ call.state = "probing"
  /\ encoderCache' = {binaryEncoders}
  /\ call' = [call EXCEPT !.state = "done", !.probed = {binaryEncoders},
                          !.result = checkGPUEncoderSupport(call.gpu, call.codec,
                                                            binaryEncoders)]
  /\ UNCHANGED resolverFrame

\* getAvailableEncoders: 'error' of the probe
ResolverProbeError ==
  /\ call.state = "probing"
  /\ call' = [call EXCEPT !.state = "done", !.probed = {{}},
                          !.result = checkGPUEncoderSupport(call.gpu, call.codec, {})]
  /\ UNCHANGED <<resolverFrame, encoderCache>>

\* a call of parseGPUError on a text made of some fragments
ResolverParse(chosen, gpu, codec) ==
  /\ call.op = "none"
  /\ Cardinality(chosen) <= MaxFragments
  /\ call' = [NoCall EXCEPT !.op = "parse", !.gpu = gpu, !.codec = codec,
                            !.fragments = chosen,
                            !.result = parseGPUError(TextOf(chosen), gpu, codec)]
  /\ UNCHANGED <<resolverFrame, encoderCache>>

\* the caller has taken the result of the call
ResolverReturn ==
  /\ call.op # "none"
  /\ call.state = "done"
  /\ call' = NoCall
  /\ UNCHANGED <<resolverFrame, encoderCache>>

ResolverNext ==
  \/ \E gpu \in Vendors, codec \in VideoCategories : ResolverCheck(gpu, codec)
  \/ ResolverProbeClose
  \/ ResolverProbeError
  \/ \E chosen \in SUBSET DOMAIN Fragments, gpu \in Vendors, codec \in VideoCategories :
        ResolverParse(chosen, gpu, codec)
  \/ ResolverReturn

ResolverSpec == Init /\ [][ResolverNext]_vars

\* --------------------------------------------------------------- progress
\* JavaScript numbers as fractions num / den with den > 0; NaN has den = 0
NaN == [num |-> 0, den |-> 0]

Num(n) == [num |-> n, den |-> 1]

IsNaN(x) == x.den = 0

Abs(n) == IF n < 0 THEN 0 - n ELSE n

GCD(a, b) ==
  LET RECURSIVE gcd(_, _)
      gcd(m, n) == IF n = 0 THEN m ELSE gcd(n, m % n)
  IN  gcd(Abs(a), Abs(b))

\* the fraction n / d, d > 0, in lowest terms
Fraction(n, d) == LET g == GCD(n, d) IN [num |-> n \div g, den |-> d \div g]

Plus(x, y) ==
  IF IsNaN(x) \/ IsNaN(y) THEN NaN
  ELSE Fraction(x.num * y.den + y.num * x.den, x.den * y.den)

Times(x, y) ==
  IF IsNaN(x) \/ IsNaN(y) THEN NaN ELSE Fraction(x.num * y.num, x.den * y.den)

\* x / y for y > 0
Over(x, y) ==
  IF IsNaN(x) \/ IsNaN(y) THEN NaN ELSE Fraction(x.num * y.den, x.den * y.num)

\* x > y, false when either is NaN
Greater(x, y) == ~IsNaN(x) /\ ~IsNaN(y) /\ x.num * y.den > y.num * x.den

\* Math.min(x, y): NaN when either is NaN
MathMin(x, y) ==
  IF IsNaN(x) \/ IsNaN(y) THEN NaN ELSE IF Greater(x, y) THEN y ELSE x

\* parseFloat / parseInt of the numerals the streams carry; NaN for any other text
\* and for undefined
ParseNumber(text) ==
  CASE text = "00" -> Num(0)
    [] text = "01" -> Num(1)
    [] text = "30" -> Num(30)
    [] text = "30000000" -> Num(30000000)
    [] text = "240000000" -> Num(240000000)
    [] text = "-1000000" -> Num(0 - 1000000)
    [] OTHER -> NaN

\* the characters [\d:.] of the time pattern
IsTimeToken(t) == t = ":" \/ t = "." \/ ~IsNaN(ParseNumber(t))

\* line.match(/time=\s*([\d:.]+)/): the captured tokens, << >> for no match
TimeMatch(line) ==
  LET hits == {i \in 1..Len(line) : line[i] = "time=" /\ i < Len(line)
                                      /\ IsTimeToken(line[i + 1])}
  IN  IF hits = {} THEN << >>
      ELSE LET i == CHOOSE h \in hits : \A g \in hits : h <= g
               ends == {j \in (i + 1)..Len(line) :
                          /\ \A k \in (i + 1)..j : IsTimeToken(line[k])
                          /\ (j = Len(line) \/ ~IsTimeToken(line[j + 1]))}
           IN  SubSeq(line, i + 1, CHOOSE j \in ends : TRUE)

\* text.split(sep)[k] (k from 0) for a text whose parts are single tokens; "" when
\* there is no such part
SplitPart(text, sep, k) ==
  LET parts == SelectSeq(text, LAMBDA t : t # sep)
  IN  IF k + 1 <= Len(parts) THEN parts[k + 1] ELSE ""

\* a variant of PercentOf without the cap at 100
PercentUncapped(seconds, totalDuration) ==
  IF Greater(totalDuration, Num(0))
  THEN Times(Over(seconds, totalDuration), Num(100))
  ELSE Num(0)

\* totalDuration > 0 ? Math.min(100, (seconds / totalDuration) * 100) : 0
PercentOf(seconds, totalDuration) ==
  IF Greater(totalDuration, Num(0))
  THEN MathMin(Num(100), Times(Over(seconds, totalDuration), Num(100)))
  ELSE Num(0)

\* parseProgress: the samples a stderr chunk yields (none or one)
parseProgress(line, totalDuration) ==
  LET timeMatch == TimeMatch(line)
      seconds == Plus(Plus(Times(ParseNumber(SplitPart(timeMatch, ":", 0)), Num(3600)),
                           Times(ParseNumber(SplitPart(timeMatch, ":", 1)), Num(60))),
                      ParseNumber(SplitPart(timeMatch, ":", 2)))
  IN  IF timeMatch = << >> THEN << >>
      ELSE << [channel |-> "stderr", input |-> line,
               percent |-> PercentOf(seconds, totalDuration)] >>

\* the stdout 'data' listener on one line: the samples it yields (none or one)
StdoutLine(line, totalDuration) ==
  IF ~Includes(line, <<"out_time_ms", "=">>) THEN << >>
  ELSE LET timeMs == ParseNumber(SplitPart(line, "=", 1))
           seconds == Over(timeMs, Num(1000000))
       IN  << [channel |-> "stdout", input |-> line,
                percent |-> PercentOf(seconds, totalDuration)] >>

\* a variant of StdoutData that walks the lines of a chunk from the last to the first
StdoutDataReversed(lines, totalDuration) ==
  LET RECURSIVE each(_)
      each(i) == IF i < 1 THEN << >>
                 ELSE StdoutLine(lines[i], totalDuration) \o each(i - 1)
  IN  each(Len(lines))

\* the stdout 'data' listener: output.split('\n'), one line after the other
StdoutData(lines, totalDuration) ==
  LET RECURSIVE each(_)
      each(i) == IF i > Len(lines) THEN << >>
                 ELSE StdoutLine(lines[i], totalDuration) \o each(i + 1)
  IN  each(1)

\* the stream events of one process
MaxChunks == 3

\* how getVideoInfo settles: rejected (ffprobe missing, exit code # 0, output not
\* JSON), or resolved with the duration and the codec of the video stream
\* ('unknown' when there is none)
VideoInfos ==
  { [settled |-> "rejected", duration |-> Num(0), codec |-> "undefined"],
    [settled |-> "resolved", duration |-> Num(120), codec |-> "h264"],
    [settled |-> "resolved", duration |-> Num(60), codec |-> "unknown"] }

\* how getVideoDuration settles: rejected, or resolved with the duration (0 when
\* the output is not a number)
VideoDurations ==
  { [settled |-> "rejected", duration |-> Num(0)],
    [settled |-> "resolved", duration |-> Num(60)],
    [settled |-> "resolved", duration |-> Num(0)] }

\* a variant of probeMetadata that takes getVideoInfo's 'unknown' placeholder for
\* the codec when getVideoInfo rejects
probeMetadataUnknownCodec(info, fallback) ==
  IF info.settled = "resolved"
  THEN [totalDuration |-> info.duration, inputCodec |-> info.codec]
  ELSE IF fallback.settled = "resolved"
  THEN [totalDuration |-> fallback.duration, inputCodec |-> "unknown"]
  ELSE [totalDuration |-> Num(0), inputCodec |-> "unknown"]

\* convertVideo's try / catch around the metadata probes: totalDuration and
\* inputCodec once both have settled
probeMetadata(info, fallback) ==
  IF info.settled = "resolved"
  THEN [totalDuration |-> info.duration, inputCodec |-> info.codec]
  ELSE IF fallback.settled = "resolved"
  THEN [totalDuration |-> fallback.duration, inputCodec |-> "undefined"]
  ELSE [totalDuration |-> Num(0), inputCodec |-> "undefined"]

\* stderr chunks with a status line carrying time=HH:MM:SS
TimedChunks ==
  { <<"frame=", "30", "time=", "00", ":", "00", ":", "30", "speed=", "1x">>,
    <<"frame=", "30", "time=", "00", ":", "01", ":", "00", "speed=", "1x">>,
    <<"time=", "01", ":", "00", ":", "00">> }

\* stderr chunks without one
UntimedChunks ==
  { <<"No", "capable", "devices", "found">>,
    <<"frame=", "00", "time=", "N/A">> }

\* stdout chunks of `-progress pipe:1`, each a sequence of lines
StdoutChunks ==
  { << <<"out_time_ms", "=", "30000000">>, <<"progress", "=", "continue">> >>,
    << <<"out_time_ms", "=", "240000000">>, <<"out_time_ms", "=", "30000000">> >>,
    << <<"out_time_ms", "=", "-1000000">> >>,
    << <<"progress", "=", "end">> >> }

\* ------------------------------------------------------------- capability
\* the two listings, told apart by the cache they fill
ProbeKinds == {"encoders", "decoders"}

MaxProbes == 3

\* what `ffmpeg -decoders` lists on the platform
binaryDecoders ==
  CASE platform = "darwin" -> {"h264", "hevc", "av1", "hevc_videotoolbox"}
    [] platform = "win32" ->
         {"h264", "hevc", "av1", "h264_cuvid", "hevc_cuvid", "h264_qsv", "h264_d3d11va"}
    [] OTHER -> {"h264", "hevc", "av1", "h264_cuvid", "hevc_cuvid"}

\* the names the 'close' listener collects from the output of a probe that ran
Listed(kind) == IF kind = "encoders" THEN binaryEncoders ELSE binaryDecoders

CacheOf(kind) == IF kind = "encoders" THEN encoderCache ELSE decoderCache

\* `if (encoderCache)` / `if (decoderCache)`: a Set, even an empty one, is truthy
cacheHit(cache) == cache # {}

\* a variant of the 'error' listener that rejects
onProbeErrorRejects(c, i) ==
  [c EXCEPT !.probes[i].state = "errored",
            !.last = [op |-> "settle", kind |-> c.probes[i].kind, cached |-> {},
                      spawned |-> FALSE, via |-> "error", settled |-> "rejected",
                      value |-> {}]]

\* process.on('error'): resolve(new Set())
onProbeError(c, i) ==
  [c EXCEPT !.probes[i].state = "errored",
            !.last = [op |-> "settle", kind |-> c.probes[i].kind, cached |-> {},
                      spawned |-> FALSE, via |-> "error", settled |-> "resolved",
                      value |-> {{}}]]

capabilityFrame ==
  <<platform, selectedFile, presetSelect, binaryEncoders, settings,
    pc, run, probe, proc, exitCode, fired, currentProcess,
    outputPathByProcess, canceledProcesses, timers, files, result, notif,
    isConversionActive, isConverting, gpuModal, started, cancelSeen, last,
    call, progress, plan, invocation, updater>>

\* a call of getAvailableEncoders / getAvailableDecoders up to its return: the
\* cached set, or a promise and a new probe process
GetAvailable(kind) ==
  /\ cacheHit(CacheOf(kind)) \/ Len(capability.probes) < MaxProbes
  /\ capability' =
       IF cacheHit(CacheOf(kind))
       THEN [capability EXCEPT
               !.last = [op |-> "call", kind |-> kind, cached |-> CacheOf(kind),
                         spawned |-> FALSE, via |-> "cache", settled |-> "resolved",
                         value |-> CacheOf(kind)]]
       ELSE [capability EXCEPT
               !.probes = Append(@, [kind |-> kind, state |-> "pending"]),
               !.last = [op |-> "call", kind |-> kind, cached |-> CacheOf(kind),
                         spawned |-> TRUE, via |-> "none", settled |-> "pending",
                         value |-> {}]]
  /\ UNCHANGED <<capabilityFrame, encoderCache, decoderCache>>

\* process.on('close') of probe i: the names are collected from the output (none
\* when the spawn failed), the cache is assigned and the promise resolved; a
\* promise the 'error' listener resolved stays as it is
CapabilityProbeClose(i) ==
  /\ i \in 1..Len(capability.probes)
  /\ capability.probes[i].state \in {"pending", "errored"}
  /\ LET kind == capability.probes[i].kind
         ran == capability.probes[i].state = "pending"
         names == IF ran THEN Listed(kind) ELSE {}
     IN  /\ encoderCache' = IF kind = "encoders" THEN {names} ELSE encoderCache
         /\ decoderCache' = IF kind = "decoders" THEN {names} ELSE decoderCache
         /\ capability' =
              [capability EXCEPT
                 !.probes[i].state = "closed",
                 !.last = [op |-> IF ran THEN "settle" ELSE "close", kind |-> kind,
                           cached |-> CacheOf(kind), spawned |-> FALSE,
                           via |-> "close",
                           settled |-> IF ran THEN "resolved" ELSE "none",
                           value |-> IF ran THEN {names} ELSE {}]]
  /\ UNCHANGED capabilityFrame

\* process.on('error') of probe i: the spawn failed
CapabilityProbeError(i) ==
  /\ i \in 1..Len(capability.probes)
  /\ capability.probes[i].state = "pending"
  /\ capability' = onProbeError(capability, i)
  /\ UNCHANGED <<capabilityFrame, encoderCache, decoderCache>>

CapabilityNext ==
  \/ \E kind \in ProbeKinds : GetAvailable(kind)
  \/ \E i \in 1..MaxProbes : CapabilityProbeClose(i)
  \/ \E i \in 1..MaxProbes : CapabilityProbeError(i)

CapabilitySpec == Init /\ [][CapabilityNext]_vars

\* ---------------------------------------------------------------- planner
NVIDIA_DECODERS ==
  [h264 |-> "h264_cuvid", hevc |-> "hevc_cuvid", h265 |-> "hevc_cuvid",
   av1 |-> "av1_cuvid", vp9 |-> "vp9_cuvid", mpeg2video |-> "mpeg2_cuvid",
   mpeg4 |-> "mpeg4_cuvid"]

INTEL_DECODERS ==
  [h264 |-> "h264_qsv", hevc |-> "hevc_qsv", h265 |-> "hevc_qsv", av1 |-> "av1_qsv",
   vp9 |-> "vp9_qsv"]

D3D11_DECODERS ==
  [h264 |-> "h264_d3d11va", hevc |-> "hevc_d3d11va", h265 |-> "hevc_d3d11va",
   av1 |-> "av1_d3d11va", vp9 |-> "vp9_d3d11va"]

VIDEOTOOLBOX_DECODERS ==
  [h264 |-> "h264_videotoolbox", hevc |-> "hevc_videotoolbox",
   h265 |-> "hevc_videotoolbox"]

vaapiDevice == "/dev/dri/renderD128"

VaapiCodecs == {"h264", "hevc", "av1", "vp9"}

\* table[key]: "" stands for undefined
Lookup(table, key) == IF key \in DOMAIN table THEN table[key] ELSE ""

\* the source codecs a call can be given: "undefined" when getVideoInfo rejected,
\* 'unknown' when the file has no video stream, else the stream's codec_name
Codecs == {"undefined", "unknown", "h264", "H264", "h265", "hevc", "av1", "vp9",
           "mpeg4", "prores"}

\* String.prototype.toLowerCase on the names above
toLowerCase(codec) == IF codec = "H264" THEN "h264" ELSE codec

\* a variant of normalizeCodec without the test of a missing codec
normalizeCodecOfAny(codec) ==
  LET normalized == toLowerCase(codec)
  IN  IF normalized = "h265" THEN "hevc" ELSE normalized

\* normalizeCodec: "null" for a missing codec
normalizeCodec(codec) ==
  IF codec = "undefined" THEN "null"
  ELSE LET normalized == toLowerCase(codec)
       IN  IF normalized = "h265" THEN "hevc" ELSE normalized

\* a variant of checkDecoderAvailable that answers true for every decoder
decoderAlwaysAvailable(decoder, decoders) == TRUE

\* checkDecoderAvailable(decoder), given the set getAvailableDecoders resolves to
checkDecoderAvailable(decoder, decoders) == decoder \in decoders

\* the decoder getHardwareDecodeArgs passes to checkDecoderAvailable, "" when it
\* returns without the call
DecoderToCheck(gpu, codec) ==
  LET normalized == normalizeCodec(codec)
  IN  IF gpu = "cpu" \/ normalized = "null" THEN ""
      ELSE IF platform = "darwin"
      THEN IF gpu # "apple" THEN "" ELSE Lookup(VIDEOTOOLBOX_DECODERS, normalized)
      ELSE IF platform = "win32" /\ gpu = "nvidia" THEN Lookup(NVIDIA_DECODERS, normalized)
      ELSE IF platform = "win32" /\ gpu = "intel" THEN Lookup(INTEL_DECODERS, normalized)
      ELSE IF platform = "win32" /\ gpu = "amd" THEN Lookup(D3D11_DECODERS, normalized)
      ELSE IF platform = "linux" /\ gpu = "nvidia" THEN Lookup(NVIDIA_DECODERS, normalized)
      ELSE ""

\* getHardwareDecodeArgs(gpu, codec), given whether the render device exists and
\* the set getAvailableDecoders resolves to
getHardwareDecodeArgs(gpu, codec, deviceExists, decoders) ==
  LET normalized == normalizeCodec(codec)
      available(decoder) == decoder # "" /\ checkDecoderAvailable(decoder, decoders)
  IN  IF gpu = "cpu" THEN << >>
      ELSE IF normalized = "null" THEN << >>
      ELSE IF platform = "darwin"
      THEN IF gpu # "apple" THEN << >>
           ELSE LET decoder == Lookup(VIDEOTOOLBOX_DECODERS, normalized)
                IN  IF available(decoder)
                    THEN <<"-hwaccel", "videotoolbox", "-c:v", decoder>>
                    ELSE <<"-hwaccel", "videotoolbox">>
      ELSE IF platform = "win32" /\ gpu = "nvidia"
      THEN LET decoder == Lookup(NVIDIA_DECODERS, normalized)
           IN  IF available(decoder)
               THEN <<"-hwaccel", "cuda", "-hwaccel_output_format", "cuda", "-c:v", decoder>>
               ELSE << >>
      ELSE IF platform = "win32" /\ gpu = "intel"
      THEN LET decoder == Lookup(INTEL_DECODERS, normalized)
           IN  IF available(decoder)
               THEN <<"-hwaccel", "qsv", "-hwaccel_output_format", "qsv", "-c:v", decoder>>
               ELSE << >>
      ELSE IF platform = "win32" /\ gpu = "amd"
      THEN LET decoder == Lookup(D3D11_DECODERS, normalized)
           IN  IF available(decoder)
               THEN <<"-hwaccel", "d3d11va", "-hwaccel_output_format", "d3d11", "-c:v",
                      decoder>>
               ELSE << >>
      ELSE IF platform = "linux" /\ gpu = "nvidia"
      THEN LET decoder == Lookup(NVIDIA_DECODERS, normalized)
           IN  IF available(decoder)
               THEN <<"-hwaccel", "cuda", "-hwaccel_output_format", "cuda", "-c:v", decoder>>
               ELSE << >>
      ELSE IF platform = "linux" /\ gpu \in {"amd", "intel"}
      THEN IF deviceExists /\ normalized \in VaapiCodecs
           THEN <<"-hwaccel", "vaapi", "-hwaccel_device", vaapiDevice,
                  "-hwaccel_output_format", "vaapi">>
           ELSE << >>
      ELSE << >>

plannerFrame ==
  <<platform, selectedFile, presetSelect, binaryEncoders, settings, encoderCache,
    pc, run, probe, proc, exitCode, fired, currentProcess,
    outputPathByProcess, canceledProcesses, timers, files, result, notif,
    isConversionActive, isConverting, gpuModal, started, cancelSeen, last,
    call, progress, capability, invocation, updater>>

\* a call of getHardwareDecodeArgs(gpu, codec) up to its return or its first
\* await: checkDecoderAvailable is answered from the cache, or spawns a probe
PlanDecodeArgs(gpu, codec, deviceExists) ==
  /\ plan.op = "none"
  /\ LET c == [NoPlan EXCEPT !.op = "plan", !.gpu = gpu, !.codec = codec,
                             !.deviceExists = deviceExists]
     IN  plan' = IF DecoderToCheck(gpu, codec) = ""
                 THEN [c EXCEPT !.args = {getHardwareDecodeArgs(gpu, codec, deviceExists, {})}]
                 ELSE IF cacheHit(decoderCache)
                 THEN [c EXCEPT !.checked = decoderCache,
                                !.args = {getHardwareDecodeArgs(gpu, codec, deviceExists,
                                             CHOOSE S \in decoderCache : TRUE)}]
                 ELSE [c EXCEPT !.state = "probing", !.probe = "pending"]
  /\ UNCHANGED <<plannerFrame, decoderCache>>

\* getAvailableDecoders: 'close' of the probe; after an 'error' it finds no output
\* and a promise that is resolved already
PlannerProbeClose ==
  /\ plan.probe \in {"pending", "errored"}
  /\ LET decoders == IF plan.probe = "pending" THEN binaryDecoders ELSE {}
     IN  /\ decoderCache' = {decoders}
         /\ plan' = IF plan.probe = "errored" THEN [plan EXCEPT !.probe = "closed"]
                     ELSE [plan EXCEPT !.probe = "closed", !.state = "done",
                                       !.checked = {decoders},
                                       !.args = {getHardwareDecodeArgs(plan.gpu, plan.codec,
                                                    plan.deviceExists, decoders)}]
  /\ UNCHANGED plannerFrame

\* getAvailableDecoders: 'error' of the probe
PlannerProbeError ==
  /\ plan.probe = "pending"
  /\ plan' = [plan EXCEPT !.probe = "errored", !.state = "done", !.checked = {{}},
                          !.args = {getHardwareDecodeArgs(plan.gpu, plan.codec,
                                       plan.deviceExists, {})}]
  /\ UNCHANGED <<plannerFrame, decoderCache>>

\* convertVideo has taken the arguments, and the probe, if any, has closed
PlannerReturn ==
  /\ plan.op # "none"
  /\ plan.state = "done"
  /\ plan.probe \in {"none", "closed"}
  /\ plan' = NoPlan
  /\ UNCHANGED <<plannerFrame, decoderCache>>

PlannerNext ==
  \/ \E gpu \in Vendors, codec \in Codecs, deviceExists \in BOOLEAN :
        PlanDecodeArgs(gpu, codec, deviceExists)
  \/ PlannerProbeClose
  \/ PlannerProbeError
  \/ PlannerReturn

PlannerSpec == Init /\ [][PlannerNext]_vars

\* ------------------------------------------------------ progress of a run
\* convertVideo: the metadata probe settles and the process is spawned
ProgressSpawn ==
  /\ progress.totalDuration = {}
  /\ \E info \in VideoInfos, fallback \in VideoDurations, i \in 1..Len(presets),
        gpu \in Vendors, deviceExists \in BOOLEAN, decoders \in {binaryDecoders, {}} :
       LET metadata == probeMetadata(info, fallback)
           decodeArgs == IF IsVideoPreset(presets[i])
                         THEN getHardwareDecodeArgs(gpu, metadata.inputCodec,
                                                    deviceExists, decoders)
                         ELSE << >>
       IN  progress' = [progress EXCEPT
                          !.totalDuration = {metadata.totalDuration},
                          !.info = info.settled,
                          !.fallback = IF info.settled = "resolved" THEN "none"
                                       ELSE fallback.settled,
                          !.inputCodec = metadata.inputCodec,
                          !.decodeArgs = decodeArgs]
  /\ UNCHANGED <<mainVars, call, libraryVars>>

\* onProgress(sample) for each of the samples a listener call yields
onProgress(p, yielded) ==
  [p EXCEPT !.samples = @ \o yielded,
            !.late = @ + (IF p.result = NoResult THEN 0 ELSE Len(yielded))]

\* the stderr 'data' listener; the streams deliver data until 'close', and the
\* listener stays attached when the promise is resolved
ProgressStderr(chunk) ==
  /\ progress.totalDuration # {}
  /\ ~progress.closed
  /\ progress.chunks < MaxChunks
  /\ LET D == CHOOSE d \in progress.totalDuration : TRUE
     IN  progress' = [onProgress(progress, parseProgress(chunk, D)) EXCEPT
                        !.timed = @ + (IF chunk \in TimedChunks THEN 1 ELSE 0),
                        !.chunks = @ + 1,
                        !.arrived = Append(@, [channel |-> "stderr", input |-> chunk])]
  /\ UNCHANGED <<mainVars, call, libraryVars>>

\* the stdout 'data' listener
ProgressStdout(lines) ==
  /\ progress.totalDuration # {}
  /\ ~progress.closed
  /\ progress.chunks < MaxChunks
  /\ LET D == CHOOSE d \in progress.totalDuration : TRUE
     IN  progress' = [onProgress(progress, StdoutData(lines, D)) EXCEPT
                        !.chunks = @ + 1,
                        !.arrived = @ \o [i \in 1..Len(lines) |->
                                            [channel |-> "stdout", input |-> lines[i]]]]
  /\ UNCHANGED <<mainVars, call, libraryVars>>

\* the 'close' listener: it resolves the promise unless 'error' already did
ProgressClose(code) ==
  /\ progress.totalDuration # {}
  /\ ~progress.closed
  /\ progress' = [progress EXCEPT
                    !.closed = TRUE,
                    !.terminal = IF progress.result = NoResult THEN "close" ELSE @,
                    !.result = IF progress.result = NoResult
                               THEN [success |-> code = 0] ELSE @]
  /\ UNCHANGED <<mainVars, call, libraryVars>>

\* the 'error' listener: a signal that could not be delivered emits 'error' on
\* a process that lives on and keeps writing to its streams
ProgressError ==
  /\ progress.totalDuration # {}
  /\ ~progress.closed
  /\ progress.result = NoResult
  /\ progress' = [progress EXCEPT !.terminal = "error",
                                  !.result = [success |-> FALSE]]
  /\ UNCHANGED <<mainVars, call, libraryVars>>

ProgressNext ==
  \/ ProgressSpawn
  \/ \E chunk \in TimedChunks \cup UntimedChunks : ProgressStderr(chunk)
  \/ \E lines \in StdoutChunks : ProgressStdout(lines)
  \/ \E code \in ExitCodes : ProgressClose(code)
  \/ ProgressError

ProgressSpec == Init /\ [][ProgressNext]_vars

\* ---------------------------------------------------------------- presets
\* an argument vector is a list of texts; a flag or a value is a text of one token
Arg(text) == <<text>>

Args(list) == [i \in 1..Len(list) |-> Arg(list[i])]

\* the table of getVideoEncoder (presets.ts)
presetEncoders ==
  [h264 |-> [nvidia |-> "h264_nvenc", amd |-> "h264_amf", intel |-> "h264_qsv",
             apple |-> "h264_videotoolbox", cpu |-> "libx264"],
   h265 |-> [nvidia |-> "hevc_nvenc", amd |-> "hevc_amf", intel |-> "hevc_qsv",
             apple |-> "hevc_videotoolbox", cpu |-> "libx265"],
   av1  |-> [nvidia |-> "av1_nvenc", amd |-> "av1_amf", intel |-> "av1_qsv",
             apple |-> "libsvtav1", cpu |-> "libsvtav1"]]

\* a variant of getVideoEncoder that always names the software encoder
getSoftwareEncoder(codec, gpu) == presetEncoders[codec].cpu

getVideoEncoder(codec, gpu) == presetEncoders[codec][gpu]

\* getArgs of the video presets: the encoder, the quality flags of the cpu or of
\* the GPU branch, the audio flags
videoArgs(codec, input, output, gpu, cpuFlags, gpuFlags, audioFlags) ==
  LET encoder == getVideoEncoder(codec, gpu)
  IN  <<Arg("-i"), input, Arg("-c:v"), Arg(encoder)>>
        \o Args(IF gpu = "cpu" THEN cpuFlags ELSE gpuFlags)
        \o Args(audioFlags) \o <<output>>

\* preset.getArgs(input, output, gpu)
getArgs(preset, input, output, gpu) ==
  CASE preset.id = "av1-balanced" ->
         videoArgs("av1", input, output, gpu, <<"-crf", "30", "-preset", "6">>,
                   <<"-cq", "30">>, <<"-c:a", "libopus", "-b:a", "128k">>)
    [] preset.id = "av1-quality" ->
         videoArgs("av1", input, output, gpu, <<"-crf", "20", "-preset", "4">>,
                   <<"-cq", "20">>, <<"-c:a", "libopus", "-b:a", "192k">>)
    [] preset.id = "av1-compression" ->
         videoArgs("av1", input, output, gpu, <<"-crf", "40", "-preset", "6">>,
                   <<"-cq", "40">>, <<"-c:a", "libopus", "-b:a", "96k">>)
    [] preset.id = "h264-fast" ->
         videoArgs("h264", input, output, gpu, <<"-crf", "23", "-preset", "fast">>,
                   <<"-cq", "23", "-preset", "fast">>, <<"-c:a", "aac", "-b:a", "128k">>)
    [] preset.id = "h264-quality" ->
         videoArgs("h264", input, output, gpu, <<"-crf", "18", "-preset", "slow">>,
                   <<"-cq", "18", "-preset", "slow">>, <<"-c:a", "aac", "-b:a", "192k">>)
    [] preset.id = "h265-balanced" ->
         videoArgs("h265", input, output, gpu, <<"-crf", "28", "-preset", "medium">>,
                   <<"-cq", "28">>, <<"-c:a", "aac", "-b:a", "128k">>)
    [] preset.id = "h265-quality" ->
         videoArgs("h265", input, output, gpu, <<"-crf", "22", "-preset", "slow">>,
                   <<"-cq", "22">>, <<"-c:a", "aac", "-b:a", "192k">>)
    [] preset.category = "remux" ->
         <<Arg("-i"), input>> \o Args(<<"-c", "copy">>) \o <<output>>
    [] preset.id = "audio-mp3" ->
         <<Arg("-i"), input>> \o Args(<<"-vn", "-c:a", "libmp3lame", "-b:a", "192k">>)
           \o <<output>>
    [] preset.id = "audio-aac" ->
         <<Arg("-i"), input>> \o Args(<<"-vn", "-c:a", "aac", "-b:a", "192k">>)
           \o <<output>>
    [] preset.id = "audio-flac" ->
         <<Arg("-i"), input>> \o Args(<<"-vn", "-c:a", "flac">>) \o <<output>>

\* a variant of the argument vector with the hardware-decode arguments at its end
argsDecodeLast(decodeArgs, presetArgs) ==
  Args(<<"-y", "-progress", "pipe:1">>) \o presetArgs \o Args(decodeArgs)

\* convertVideo: the argument vector of the transcoding process
convertVideoArgs(decodeArgs, presetArgs) ==
  Args(<<"-y", "-progress", "pipe:1">>) \o Args(decodeArgs) \o presetArgs

\* the ids a lookup can be given: those of the list, and some that are not in it
LookupIds ==
  {presets[i].id : i \in 1..Len(presets)} \cup {"", "custom", "av1", "remux-avi"}

presetFrame ==
  <<platform, selectedFile, presetSelect, binaryEncoders, settings, encoderCache,
    pc, run, probe, proc, exitCode, fired, currentProcess,
    outputPathByProcess, canceledProcesses, timers, files, result, notif,
    isConversionActive, isConverting, gpuModal, started, cancelSeen, last,
    call, progress, decoderCache, capability, plan, updater>>

\* a call of getPresetById(id)
LookupPreset(id) ==
  /\ invocation.op = "none"
  /\ invocation' = [NoInvocation EXCEPT !.op = "lookup", !.id = id,
                                        !.found = getPresetById(id)]
  /\ UNCHANGED presetFrame

\* convertVideo up to the spawn, for the selected file, preset number i and vendor
\* gpu; codec: what the metadata probe found, decoders: the set
\* getAvailableDecoders resolves to
BuildArgs(i, gpu, codec, deviceExists, decoders) ==
  /\ invocation.op = "none"
  /\ LET preset == presets[i]
         outputDir == IF settings.outputDirectory # << >>
                      THEN settings.outputDirectory ELSE dirname(selectedFile)
         outputPath == OutputPathOf(selectedFile, outputDir, preset)
         decodeArgs == IF IsVideoPreset(preset)
                       THEN getHardwareDecodeArgs(gpu, codec, deviceExists, decoders)
                       ELSE << >>
         presetArgs == getArgs(preset, selectedFile, outputPath, gpu)
     IN  invocation' = [NoInvocation EXCEPT !.op = "build", !.id = preset.id,
                                           !.gpu = gpu, !.codec = codec,
                                           !.found = preset,
                                           !.decodeArgs = decodeArgs,
                                           !.presetArgs = presetArgs,
                                           !.outputPath = outputPath,
                                           !.args = convertVideoArgs(decodeArgs, presetArgs)]
  /\ UNCHANGED presetFrame

\* the caller has taken the preset, resp. spawned the process
PresetReturn ==
  /\ invocation.op # "none"
  /\ invocation' = NoInvocation
  /\ UNCHANGED presetFrame

PresetNext ==
  \/ \E id \in LookupIds : LookupPreset(id)
  \/ \E i \in 1..Len(presets), gpu \in Vendors, codec \in Codecs,
         deviceExists \in BOOLEAN, decoders \in {binaryDecoders, {}} :
        BuildArgs(i, gpu, codec, deviceExists, decoders)
  \/ PresetReturn

PresetSpec == Init /\ [][PresetNext]_vars

\* ---------------------------------------------------------------- updater
MaxInits == 2

MaxUpdateCalls == 2

registryKeys == <<"HKLM", "HKCU">>

\* the answers of `reg query` on one key: it throws (the key is missing), or it
\* prints lines that hold a value name, a type and a value
RegistryOutputs ==
  { [ok |-> FALSE, lines |-> << >>],
    [ok |-> TRUE, lines |-> << [name |-> "Version", type |-> "REG_SZ", raw |-> "1.0"] >>],
    [ok |-> TRUE,
     lines |-> << [name |-> "InstalledViaMsi", type |-> "REG_DWORD", raw |-> "0x1"] >>],
    [ok |-> TRUE,
     lines |-> << [name |-> "DisableAutoUpdates", type |-> "REG_DWORD", raw |-> "0x0"] >>],
    [ok |-> TRUE,
     lines |-> << [name |-> "InstalledViaMsi", type |-> "REG_SZ", raw |-> "1"],
                  [name |-> "DISABLEAUTOUPDATES", type |-> "reg_dword", raw |-> "1"] >>] }

Registries == [1..Len(registryKeys) -> RegistryOutputs]

\* String.prototype.toLowerCase on the names and types above
lowerCase(text) ==
  CASE text = "InstalledViaMsi" -> "installedviamsi"
    [] text \in {"DisableAutoUpdates", "DISABLEAUTOUPDATES"} -> "disableautoupdates"
    [] text = "Version" -> "version"
    [] text = "REG_DWORD" -> "reg_dword"
    [] text = "REG_SZ" -> "reg_sz"
    [] OTHER -> text

\* parseInt(rawValue, 16) for a value that starts with '0x', parseInt(rawValue, 10)
\* otherwise, on the values above
parseRegistryValue(rawValue) ==
  CASE rawValue \in {"0x1", "1", "1.0"} -> 1
    [] OTHER -> 0

\* hasRegistryDwordValue(output, names)
hasRegistryDwordValue(output, names) ==
  LET nameSet == {lowerCase(n) : n \in names}
  IN  \E i \in 1..Len(output) :
        /\ lowerCase(output[i].type) = "reg_dword"
        /\ lowerCase(output[i].name) \in nameSet
        /\ parseRegistryValue(output[i].raw) = 1

\* checkMsiInstallation, given what `reg query` answers for each key
checkMsiInstallation(registry) ==
  IF platform # "win32" THEN FALSE
  ELSE \E k \in 1..Len(registryKeys) :
         /\ registry[k].ok
         /\ hasRegistryDwordValue(registry[k].lines,
                                  {"InstalledViaMsi", "DisableAutoUpdates"})

\* initUpdater(window); listeners counts the registrations of the six handlers
initUpdater(u, registry) ==
  LET disabled == checkMsiInstallation(registry)
      u1 == [u EXCEPT !.mainWindow = TRUE, !.registry = registry,
                      !.updatesDisabled = disabled, !.inits = @ + 1]
  IN  IF disabled THEN u1 ELSE [u1 EXCEPT !.listeners = @ + 1]

\* checkForUpdates(): the 'Updates Disabled' dialog, or a check
checkForUpdates(u) ==
  IF u.updatesDisabled
  THEN IF u.mainWindow THEN [u EXCEPT !.dialogs = @ + 1] ELSE u
  ELSE [u EXCEPT !.checks = @ + 1, !.pending = @ + 1]

\* isUpdateDisabled()
isUpdateDisabled(u) == u.updatesDisabled

\* a variant of checkForUpdatesSilent without the test of updatesDisabled
checkForUpdatesSilentUnguarded(u) ==
  [u EXCEPT !.silentCheck = TRUE, !.checks = @ + 1, !.pending = @ + 1]

\* checkForUpdatesSilent()
checkForUpdatesSilent(u) ==
  IF u.updatesDisabled THEN u
  ELSE [u EXCEPT !.silentCheck = TRUE, !.checks = @ + 1, !.pending = @ + 1]

\* the handlers of the events that answer a check
onUpdaterEvent(u, event) ==
  LET u1 == [u EXCEPT !.pending = @ - 1]
  IN  IF event = "update-available"
      THEN [u1 EXCEPT !.updateAvailable = TRUE, !.silentCheck = FALSE,
                      !.dialogs = IF u.silentCheck THEN @ ELSE @ + 1]
      ELSE IF event = "update-not-available"
      THEN [u1 EXCEPT !.silentCheck = FALSE,
                      !.dialogs = IF u.silentCheck THEN @ ELSE @ + 1]
      ELSE [u1 EXCEPT !.dialogs = @ + 1]

updaterFrame ==
  <<platform, selectedFile, presetSelect, binaryEncoders, settings, encoderCache,
    pc, run, probe, proc, exitCode, fired, currentProcess,
    outputPathByProcess, canceledProcesses, timers, files, result, notif,
    isConversionActive, isConverting, gpuModal, started, cancelSeen, last,
    call, progress, decoderCache, capability, plan, invocation>>

\* createWindow: at startup, and again on 'activate' (macOS) when no window is open
InitUpdater(registry) ==
  /\ updater.inits < MaxInits
  /\ updater.inits = 0 \/ (platform = "darwin" /\ registry = updater.registry)
  /\ updater' = initUpdater(updater, registry)
  /\ UNCHANGED updaterFrame

\* ipcMain.handle('check-for-updates')
CheckForUpdates ==
  /\ updater.inits > 0
  /\ updater.calls < MaxUpdateCalls
  /\ updater' = [checkForUpdates(updater) EXCEPT !.calls = @ + 1]
  /\ UNCHANGED updaterFrame

\* the timer armed at 'ready-to-show'
CheckForUpdatesSilent ==
  /\ updater.inits > 0
  /\ updater.calls < MaxUpdateCalls
  /\ updater' = [checkForUpdatesSilent(updater) EXCEPT !.calls = @ + 1]
  /\ UNCHANGED updaterFrame

\* ipcMain.handle('is-updates-disabled')
IsUpdateDisabled ==
  /\ updater.inits > 0
  /\ updater' = [updater EXCEPT !.answered = @ \cup {isUpdateDisabled(updater)}]
  /\ UNCHANGED updaterFrame

\* autoUpdater answers a check with an event that has a handler
UpdaterEvent(event) ==
  /\ updater.pending > 0
  /\ updater.listeners > 0
  /\ updater' = onUpdaterEvent(updater, event)
  /\ UNCHANGED updaterFrame

\* the promise of the silent check rejects: the catch handler
SilentCheckRejected ==
  /\ updater.pending > 0
  /\ updater.silentCheck
  /\ updater' = [updater EXCEPT !.silentCheck = FALSE]
  /\ UNCHANGED updaterFrame

UpdaterNext ==
  \/ \E registry \in Registries : InitUpdater(registry)
  \/ CheckForUpdates
  \/ CheckForUpdatesSilent
  \/ IsUpdateDisabled
  \/ \E event \in {"update-available", "update-not-available", "error"} :
        UpdaterEvent(event)
  \/ SilentCheckRejected

UpdaterSpec == Init /\ [][UpdaterNext]_vars

\* ----------------------------------------------------------------- claims
CancelledResult(p) ==
  [success |-> FALSE, outputPath |-> run[p].outputPath, error |-> CancelledMessage]

\* C1: the promise of a run resolves once: the first terminal event of a process
\* delivers a result, the result never changes afterwards, and a second terminal
\* event of the same process (whichever came first) changes neither a result, a
\* notification, the registry (currentProcess, outputPathByProcess,
\* canceledProcesses) nor the files.
C1_FirstTerminalEventDecides ==
  [][ \A p \in Procs :
        /\ result[p] # NoResult => result'[p] = result[p]
        /\ (fired[p] = {} /\ fired'[p] # {}) => result'[p] # NoResult
        /\ (fired[p] # {} /\ fired'[p] # fired[p]) =>
              /\ result' = result
              /\ notif' = notif
              /\ files' = files
              /\ currentProcess' = currentProcess
              /\ outputPathByProcess' = outputPathByProcess
              /\ canceledProcesses' = canceledProcesses ]_vars

\* both orders have happened: 'error' then 'close' on a failed spawn, 'close' then
\* 'error' on a process that succeeded
C1_BothEventsFired ==
  \E p, q \in Procs :
     /\ fired[p] = {"close", "error"}
     /\ result[p] = [success |-> FALSE, outputPath |-> run[p].outputPath,
                     error |-> SpawnErrorMessage]
     /\ fired[q] = {"close", "error"}
     /\ result[q] = [success |-> TRUE, outputPath |-> run[q].outputPath]

\* C2: a run whose process cancelConversion found as currentProcess resolves to
\* the cancelled result, whatever the exit code and whichever terminal event
\* delivers it, and when the result is delivered the output file does not exist
\* unless unlinkSync threw.
C2_CancelledRunResolvesCancelled ==
  \A p \in cancelSeen :
     /\ result[p] # NoResult => result[p] = CancelledResult(p)
     /\ (p \in last.resolved /\ ~last.unlinkThrew) => run[p].outputPath \notin files

\* a cancelled process that exited with code 0 has closed and its run has resolved
C2_CancelledExitZero ==
  \E p \in cancelSeen :
     /\ p \in last.resolved
     /\ last.op = "close"
     /\ exitCode[p] = {0}
     /\ result[p] = CancelledResult(p)

\* the output path of run p, written out for the two input files and the two
\* output directories
ExpectedDir == IF settings.outputDirectory = << >> THEN <<"/", "v">> ELSE <<"/", "out">>

ExpectedStem ==
  IF selectedFile = <<"/", "v", "/", "a", ".", "mkv">> THEN <<"a">> ELSE <<"a", ".", "b">>

ExpectedOutputPath(p) ==
  ExpectedDir \o <<"/">> \o ExpectedStem
     \o <<"_converted", ".", getPresetById(run[p].presetId).extension>>

\* C3 as stated: a process that closed with exit code 0 has a run that resolved to
\* success with the output path <outputDir>/<input basename>_converted.<extension>.
C3_CloseZeroSucceeds ==
  \A p \in Procs :
     ("close" \in fired[p] /\ exitCode[p] = {0}) =>
        result[p] = [success |-> TRUE, outputPath |-> ExpectedOutputPath(p)]

\* C3, amended: a process that closed with exit code 0 and that cancelConversion
\* never found as currentProcess has a run that resolved to success with the output
\* path <outputDir>/<input basename>_converted.<extension>.
C3_CloseZeroUncancelledSucceeds ==
  \A p \in Procs :
     ("close" \in fired[p] /\ exitCode[p] = {0} /\ p \notin cancelSeen) =>
        result[p] = [success |-> TRUE, outputPath |-> ExpectedOutputPath(p)]

\* an uncancelled process closed with code 0, for the input with two dots
C3_UncancelledCloseZero ==
  \E p \in Procs :
     /\ "close" \in fired[p]
     /\ exitCode[p] = {0}
     /\ p \notin cancelSeen
     /\ ExpectedStem = <<"a", ".", "b">>
     /\ result[p].success

\* C4: right after the terminal event that resolved a run, currentProcess is null
\* and the run's process is a key of neither outputPathByProcess nor
\* canceledProcesses.
C4_RegistryEmptyAfterTerminalEvent ==
  \A p \in last.resolved :
     /\ currentProcess = {}
     /\ p \notin DOMAIN outputPathByProcess
     /\ p \notin canceledProcesses

\* C5: at most one transcoding process is alive.
C5_AtMostOneLiveProcess == Cardinality({p \in Procs : proc[p] = "alive"}) <= 1

\* the encoder the pre-flight check looks up for run r
ConfiguredEncoder(r) == GPU_ENCODERS[getPresetById(run[r].presetId).category][run[r].gpu]

\* run r's handler has got the probed set, and the encoder of its video preset and
\* non-cpu vendor is not in it
EncoderAbsent(r) ==
  /\ run[r].probed # {}
  /\ getPresetById(run[r].presetId) # NoPreset
  /\ IsVideoPreset(getPresetById(run[r].presetId))
  /\ run[r].gpu # "cpu"
  /\ \A S \in run[r].probed : ConfiguredEncoder(r) \notin S

\* C6: a run with a video preset and a non-cpu vendor whose encoder is absent from
\* the probed set has sent one 'gpu-encoder-error' of type encoder_unavailable and
\* has returned: it has not set isConversionActive, has started no metadata probe
\* and has spawned no transcoding process.
C6_AbsentEncoderStopsBeforeSpawn ==
  \A r \in Procs :
     EncoderAbsent(r) =>
        /\ Len(notif[r]) = 1
        /\ notif[r][1].channel = "gpu-encoder-error"
        /\ notif[r][1].error.type = "encoder_unavailable"
        /\ pc[r] = "done"
        /\ ~run[r].began
        /\ proc[r] = "none"
        /\ result[r] = NoResult

\* nvidia + av1 on a binary that lists no av1_nvenc
C6_AbsentEncoderReported ==
  \E r \in Procs :
     /\ EncoderAbsent(r)
     /\ run[r].probed = {PartialBuild}
     /\ run[r].gpu = "nvidia"
     /\ ConfiguredEncoder(r) = "av1_nvenc"
     /\ notif[r] # << >>

\* C7: a start-conversion handler that has returned has sent exactly one terminal
\* notification ('conversion-complete' or 'gpu-encoder-error'), one that has not
\* returned has sent none.
C7_OneTerminalNotification ==
  \A r \in Procs :
     /\ Len(notif[r]) <= 1
     /\ pc[r] = "done" <=> Len(notif[r]) = 1
     /\ \A i \in 1..Len(notif[r]) :
           notif[r][i].channel \in {"conversion-complete", "gpu-encoder-error"}

\* a run that passed the pre-flight check, transcoded and failed with a diagnostic
\* that parseGPUError classifies
C7_PostHocGPUError ==
  \E r \in Procs :
     /\ pc[r] = "done"
     /\ run[r].began
     /\ run[r].probed # {}
     /\ Len(notif[r]) = 1
     /\ notif[r][1].channel = "gpu-encoder-error"
     /\ notif[r][1].error.rule = "nvidia-init"

\* C8: cancelConversion(true) on a live current process attempts the unconditional
\* kill in the same call (taskkill on win32, SIGKILL elsewhere) and arms no timer.
C8_ForcedCancelKillsAtOnce ==
  (last.op = "cancel" /\ last.force /\ last.alive) =>
     /\ last.kills >= 1
     /\ ~last.timerArmed
     /\ platform = "win32" => "taskkill" \in last.killKinds
     /\ platform # "win32" => last.killKinds = {"SIGKILL"}

\* a forced cancel of a live process on win32, where taskkill threw
C8_ForcedCancelOnWindows ==
  /\ last.op = "cancel"
  /\ last.force
  /\ last.alive
  /\ platform = "win32"
  /\ last.killKinds = {"taskkill", "SIGKILL"}

\* C9: when a grace timer fires and its process is still alive, the unconditional
\* kill is attempted.
C9_GraceTimerKills == (last.op = "timer" /\ last.alive) => last.kills >= 1

\* C10: when kill('SIGTERM') throws in cancelConversion, the unconditional kill is
\* attempted in the same call.
C10_FailedSigtermEscalates ==
  (last.op = "cancel" /\ last.term = "throws") => last.kills >= 1

\* C11: no unconditional kill is delivered to a process that has exited.
C11_NoKillOfExitedProcess == ~last.hitExited

\* C12: a cancelConversion call that finds currentProcess null changes nothing:
\* the registry, the timers, the files and the results stay as they are, and no
\* kill is attempted.
C12_CancelWithoutProcessIsNoOp ==
  [][ (currentProcess = {} /\ last'.op = "cancel") =>
         /\ currentProcess' = {}
         /\ canceledProcesses' = canceledProcesses
         /\ outputPathByProcess' = outputPathByProcess
         /\ timers' = timers
         /\ files' = files
         /\ result' = result
         /\ notif' = notif
         /\ last'.kills = 0
         /\ ~last'.timerArmed
         /\ last'.term = "none" ]_vars

\* a cancel that found no current process while another run's process was still
\* registered, and one while a run was still probing
C12_CancelWithoutProcess ==
  /\ last.op = "cancel"
  /\ last.proc = {}
  /\ \/ outputPathByProcess # << >>
     \/ \E r \in Procs : pc[r] \in {"preflight", "info", "duration"}

\* C13: a run whose process was marked canceled is reported by one
\* 'conversion-complete' carrying 'Conversion cancelled', never by
\* 'gpu-encoder-error'; no rule of parseGPUError matches that message for any
\* vendor and codec.
C13_CancelledRunNeverGPUError ==
  /\ \A p \in cancelSeen :
        notif[p] # << >> =>
           notif[p] = << [channel |-> "conversion-complete",
                          result |-> [success |-> FALSE, outputPath |-> run[p].outputPath,
                                      error |-> <<"Conversion", "cancelled">>]] >>
  /\ \A gpu \in Vendors, codec \in VideoCategories :
        parseGPUError(<<"Conversion", "cancelled">>, gpu, codec) = NoGPUError

\* a canceled nvidia run with a video preset whose process wrote a diagnostic that
\* parseGPUError classifies, and closed with a failure code
C13_CancelledWithGPUDiagnostic ==
  \E p \in cancelSeen :
     /\ last.op = "close"
     /\ last.proc = {p}
     /\ p \in last.resolved
     /\ exitCode[p] = {1}
     /\ run[p].gpu = "nvidia"
     /\ parseGPUError(last.errorOutput, "nvidia", "av1") # NoGPUError
     /\ notif[p] # << >>

\* C14: when unlinkSync throws in the listener of a canceled process, the run still
\* resolves to the cancelled result and the process is removed from the registry as
\* when the deletion succeeds; only the file stays.
C14_UnlinkFailureStillResolves ==
  last.unlinkThrew =>
     /\ last.resolved # {}
     /\ \A p \in last.resolved :
           /\ result[p] = CancelledResult(p)
           /\ notif[p] = << [channel |-> "conversion-complete", result |-> result[p]] >>
           /\ currentProcess # {p}
           /\ p \notin DOMAIN outputPathByProcess
           /\ p \notin canceledProcesses
           /\ run[p].outputPath \in files

\* unlinkSync threw in the 'close' listener of a canceled process
C14_UnlinkThrewOnClose == last.unlinkThrew /\ last.op = "close" /\ last.resolved # {}

\* C15: every progress sample sent has 0 <= percent <= 100.
C15_PercentWithinRange ==
  \A i \in 1..Len(progress.samples) :
     LET percent == progress.samples[i].percent
     IN  /\ ~IsNaN(percent)
         /\ percent.num >= 0
         /\ percent.num <= 100 * percent.den

\* the seconds of the status lines, read off the chunks by hand
ExpectedSeconds(chunk) ==
  IF chunk = <<"frame=", "30", "time=", "00", ":", "00", ":", "30", "speed=", "1x">> THEN 30
  ELSE IF chunk = <<"frame=", "30", "time=", "00", ":", "01", ":", "00", "speed=", "1x">> THEN 60
  ELSE 3600

StderrSamples == SelectSeq(progress.samples, LAMBDA m : m.channel = "stderr")

\* C16: with a probed duration D > 0, the stderr chunks carrying time=HH:MM:SS have
\* yielded one sample each, with percent = min(100, 100 * seconds / D) (D = 120:
\* 00:00:30 gives 25, 00:01:00 gives 50), the other stderr chunks none, at every
\* moment and so when the process closes with code 0.
C16_StderrSamplesMatchStatusLines ==
  \A D \in progress.totalDuration :
     D.num > 0 =>
        /\ Len(StderrSamples) = progress.timed
        /\ \A i \in 1..Len(StderrSamples) :
              LET m == StderrSamples[i]
                  seconds == ExpectedSeconds(m.input)
              IN  /\ m.input \in TimedChunks
                  /\ ~IsNaN(m.percent)
                  /\ IF seconds >= D.num
                     THEN m.percent.num = 100 * m.percent.den
                     ELSE m.percent.num * D.num = 100 * seconds * m.percent.den
                  /\ (D = Num(120) /\ seconds = 30) => m.percent.num = 25 * m.percent.den
                  /\ (D = Num(120) /\ seconds = 60) => m.percent.num = 50 * m.percent.den

\* D = 120: a chunk without time=, then 00:00:30 and 00:01:00, then exit code 0
C16_SamplesBeforeSuccess ==
  /\ progress.totalDuration = {Num(120)}
  /\ progress.result = [success |-> TRUE]
  /\ progress.chunks = 3
  /\ Len(progress.samples) = 2
  /\ progress.samples[1].channel = "stderr"
  /\ progress.samples[1].percent.num = 25 * progress.samples[1].percent.den
  /\ progress.samples[2].channel = "stderr"
  /\ progress.samples[2].percent.num = 50 * progress.samples[2].percent.den

\* the software encoder of each family
SoftwareEncoder(codec) ==
  IF codec = "h264" THEN "libx264" ELSE IF codec = "h265" THEN "libx265" ELSE "libsvtav1"

\* C17: a call checkGPUEncoderSupport('cpu', codec) returns at once available = true
\* with the software encoder of the family and no error; it spawns no probe and
\* leaves the encoder cache as it is, whatever the cache holds.
C17_CpuNeedsNoProbe ==
  [][ (call.op = "none" /\ call'.op = "check" /\ call'.gpu = "cpu") =>
         /\ call'.state = "done"
         /\ ~call'.spawned
         /\ call'.probed = {}
         /\ encoderCache' = encoderCache
         /\ call'.result = [available |-> TRUE, encoder |-> SoftwareEncoder(call'.codec),
                            error |-> NoGPUError] ]_vars

\* a cpu call for av1 made while the cache is still empty
C17_CpuCallWithEmptyCache ==
  /\ call.op = "check"
  /\ call.gpu = "cpu"
  /\ call.codec = "av1"
  /\ call.state = "done"
  /\ encoderCache = {}
  /\ call.result.encoder = "libsvtav1"

\* C18: the table has an encoder for every codec and each of the five vendors, and
\* a finished call for a non-cpu vendor is unavailable exactly when the configured
\* encoder is not in the set it was answered from; the error then has type
\* encoder_unavailable and canRetryWithCPU, and is not the no-entry error.
C18_UnavailableIffEncoderAbsent ==
  /\ \A codec \in VideoCategories :
        /\ DOMAIN GPU_ENCODERS[codec] = Vendors
        /\ \A gpu \in Vendors : GPU_ENCODERS[codec][gpu] # ""
  /\ (call.op = "check" /\ call.state = "done" /\ call.gpu # "cpu") =>
        /\ call.probed # {}
        /\ \A S \in call.probed :
              ~call.result.available <=> GPU_ENCODERS[call.codec][call.gpu] \notin S
        /\ call.result.available => call.result.error = NoGPUError
        /\ ~call.result.available =>
              /\ call.result.error.type = "encoder_unavailable"
              /\ call.result.error.canRetryWithCPU
              /\ call.result.error.rule = "preflight"
              /\ call.result.encoder = GPU_ENCODERS[call.codec][call.gpu]

\* amd on a binary that lists the nvidia encoders only
C18_AmdEncoderAbsent ==
  /\ call.op = "check"
  /\ call.state = "done"
  /\ call.gpu = "amd"
  /\ call.probed = {FullBuild}
  /\ ~call.result.available

\* the rule the claim's order selects for a text made of the chosen fragments
ExpectedRule(chosen, gpu) ==
  IF gpu = "nvidia" /\ "nvinit" \in chosen THEN "nvidia-init"
  ELSE IF gpu = "nvidia" /\ "unsupported" \in chosen THEN "nvidia-unsupported"
  ELSE IF gpu = "amd" /\ "amf" \in chosen THEN "amd-init"
  ELSE IF gpu = "amd" /\ chosen \cap {"notsupp", "unsupported"} # {} THEN "amd-unsupported"
  ELSE IF gpu = "intel" /\ "qsv" \in chosen THEN "intel-init"
  ELSE IF gpu = "apple" /\ "vtb" \in chosen THEN "apple-init"
  ELSE IF "encoder" \in chosen THEN "encoder-not-found"
  ELSE IF "library" \in chosen THEN "library-load"
  ELSE "none"

ExpectedType(rule) ==
  IF rule = "encoder-not-found" THEN "encoder_unavailable"
  ELSE IF rule = "library-load" THEN "driver_error"
  ELSE "gpu_capability"

\* C19: parseGPUError returns the result of the first matching rule in the order
\* vendor rules (of the given vendor only), encoder not found, library load, and
\* null when none matches.
C19_FirstMatchingRule ==
  call.op = "parse" =>
     LET rule == ExpectedRule(call.fragments, call.gpu)
     IN  IF rule = "none" THEN call.result = NoGPUError
         ELSE /\ call.result # NoGPUError
              /\ call.result.rule = rule
              /\ call.result.type = ExpectedType(rule)
              /\ call.result.gpu = call.gpu
              /\ call.result.codec = call.codec

\* a text that matches a vendor rule and the generic rule, parsed for that vendor
\* and for another one
C19_VendorRuleBeforeGeneric ==
  /\ call.op = "parse"
  /\ call.fragments = {"unsupported", "encoder"}
  /\ \/ call.gpu = "nvidia" /\ call.result.rule = "nvidia-unsupported"
     \/ call.gpu = "intel" /\ call.result.rule = "encoder-not-found"

\* C20: every GPUEncoderError parseGPUError or checkGPUEncoderSupport produces has
\* canRetryWithCPU = true and a type among encoder_unavailable, gpu_capability and
\* driver_error.
C20_ErrorsRetryableAndTyped ==
  LET produced ==
        IF call.op = "parse" /\ call.result # NoGPUError THEN {call.result}
        ELSE IF call.op = "check" /\ call.state = "done"
                /\ call.result.error # NoGPUError THEN {call.result.error}
        ELSE {}
  IN  \A e \in produced :
         /\ e.canRetryWithCPU
         /\ e.type \in {"encoder_unavailable", "gpu_capability", "driver_error"}

\* a driver_error has been produced
C20_DriverErrorProduced ==
  /\ call.op = "parse"
  /\ call.result # NoGPUError
  /\ call.result.type = "driver_error"

\* run r was started with vendor cpu, or with a preset of category remux or audio
NoGPURun(r) ==
  /\ pc[r] # "idle"
  /\ \/ run[r].gpu = "cpu"
     \/ \E i \in 1..Len(presets) :
          presets[i].id = run[r].presetId /\ presets[i].category \in {"remux", "audio"}

\* C21: a run with vendor cpu, or with a preset of category remux or audio, makes
\* no encoder probe and no pre-flight check, sends no 'gpu-encoder-error', and once
\* its conversion has resolved its one notification is 'conversion-complete'
\* carrying the result unchanged
C21_NoGPUErrorWithoutGPUEncoding ==
  \A r \in Procs :
    NoGPURun(r) =>
      /\ probe[r] = "none"
      /\ run[r].probed = {}
      /\ \A i \in 1..Len(notif[r]) : notif[r][i].channel = "conversion-complete"
      /\ result[r] # NoResult =>
            notif[r] = << [channel |-> "conversion-complete", result |-> result[r]] >>

\* a remux run under vendor nvidia failed with a diagnostic the nvidia rules match,
\* and reported it through 'conversion-complete'
C21_RemuxFailureUnderGPUVendor ==
  \E r \in Procs :
    /\ run[r].gpu = "nvidia"
    /\ run[r].presetId = "remux-mkv"
    /\ result[r] # NoResult
    /\ ~result[r].success
    /\ parseGPUError(result[r].error, "nvidia", "h264") # NoGPUError
    /\ Len(notif[r]) = 1
    /\ notif[r][1].channel = "conversion-complete"
    /\ notif[r][1].result.error = result[r].error

\* C22: once a cache is populated it never changes, and every call made while it
\* is populated returns the cached set without spawning a probe, whatever the
\* interleaving of calls and probe events
C22_CacheStableOncePopulated ==
  [][ /\ encoderCache # {} => encoderCache' = encoderCache
      /\ decoderCache # {} => decoderCache' = decoderCache
      /\ \A kind \in ProbeKinds :
            ( /\ CacheOf(kind) # {}
              /\ capability' # capability
              /\ capability'.last.op = "call"
              /\ capability'.last.kind = kind ) =>
                /\ ~capability'.last.spawned
                /\ capability'.last.value = CacheOf(kind)
                /\ capability'.probes = capability.probes ]_vars

\* C23: a probe whose spawn emits 'error' resolves its call, and resolves it to the
\* empty set: no name is a member of it, and checkGPUEncoderSupport on it reports
\* every vendor other than cpu unavailable for every codec
C23_FailedProbeResolvesEmpty ==
  capability.last.via = "error" =>
    /\ capability.last.settled = "resolved"
    /\ capability.last.value = {{}}
    /\ \A S \in capability.last.value :
          /\ \A name \in binaryEncoders \cup binaryDecoders : name \notin S
          /\ \A gpu \in Vendors \ {"cpu"}, codec \in VideoCategories :
                ~checkGPUEncoderSupport(gpu, codec, S).available

\* the spawn of a decoder probe failed while the encoder cache was populated
C23_DecoderProbeSpawnFailed ==
  /\ capability.last.via = "error"
  /\ capability.last.kind = "decoders"
  /\ encoderCache = {binaryEncoders}

\* the codec names a decoder table is consulted with
CodecKey(codec) ==
  CASE codec \in {"h264", "H264"} -> "h264"
    [] codec \in {"h265", "hevc"} -> "hevc"
    [] OTHER -> codec

\* the codecs the planner knows for the platform and vendor gpu
KnownCodecs(gpu) ==
  CASE platform = "darwin" /\ gpu = "apple" -> DOMAIN VIDEOTOOLBOX_DECODERS
    [] platform = "win32" /\ gpu = "nvidia" -> DOMAIN NVIDIA_DECODERS
    [] platform = "win32" /\ gpu = "intel" -> DOMAIN INTEL_DECODERS
    [] platform = "win32" /\ gpu = "amd" -> DOMAIN D3D11_DECODERS
    [] platform = "linux" /\ gpu = "nvidia" -> DOMAIN NVIDIA_DECODERS
    [] platform = "linux" /\ gpu \in {"amd", "intel"} -> VaapiCodecs
    [] OTHER -> {}

\* the source codec is absent, or unknown to the planner
CodecAbsentOrUnknown(gpu, codec) ==
  codec = "undefined" \/ CodecKey(codec) \notin KnownCodecs(gpu)

Elements(list) == {list[i] : i \in 1..Len(list)}

\* the probe of the call answered true for the decoder of (platform, vendor, codec)
ProbeAnsweredTrue ==
  /\ DecoderToCheck(plan.gpu, plan.codec) # ""
  /\ \E S \in plan.checked : DecoderToCheck(plan.gpu, plan.codec) \in S

C26_ArgumentVectorShape ==
  invocation.op = "build" =>
    LET a == invocation.args
        d == invocation.decodeArgs
    IN  /\ Len(a) = 3 + Len(d) + Len(invocation.presetArgs)
        /\ SubSeq(a, 1, 3) = << <<"-y">>, <<"-progress">>, <<"pipe:1">> >>
        /\ \A i \in 1..Len(d) : a[3 + i] = <<d[i]>>
        /\ SubSeq(a, 4 + Len(d), Len(a)) = invocation.presetArgs
        /\ invocation.found.category \notin {"av1", "h264", "h265"} => d = << >>
        /\ a[Len(a)] = invocation.outputPath
        /\ invocation.outputPath = OutputPathOf(selectedFile, ExpectedDir, invocation.found)

\* a vector with hardware-decode arguments was built
C26_VectorWithHardwareDecode ==
  /\ invocation.op = "build"
  /\ invocation.found.category = "h264"
  /\ invocation.decodeArgs # << >>
  /\ invocation.args[Len(invocation.args)] = invocation.outputPath

\* C27: for every video preset and every vendor, the preset's arguments hold '-c:v'
\* once, followed by GPU_ENCODERS[category][vendor], which is the encoder the
\* pre-flight check answers for the pair; the two encoder tables agree
C27_PresetEncoderIsCheckedEncoder ==
  /\ \A codec \in VideoCategories, gpu \in Vendors :
        presetEncoders[codec][gpu] = GPU_ENCODERS[codec][gpu]
  /\ (invocation.op = "build" /\ invocation.found.category \in VideoCategories) =>
        LET p == invocation.presetArgs
            at == {i \in 1..Len(p) : p[i] = <<"-c:v">>}
            checked == checkGPUEncoderSupport(invocation.gpu, invocation.found.category,
                                              binaryEncoders)
        IN  /\ Cardinality(at) = 1
            /\ \A i \in at :
                  /\ i < Len(p)
                  /\ p[i + 1] = <<GPU_ENCODERS[invocation.found.category][invocation.gpu]>>
                  /\ checked.available => p[i + 1] = <<checked.encoder>>

\* the arguments of an h265 preset were built for vendor intel
C27_HevcForIntel ==
  /\ invocation.op = "build"
  /\ invocation.found.category = "h265"
  /\ invocation.gpu = "intel"
  /\ <<"hevc_qsv">> \in Elements(invocation.presetArgs)

\* C28: the preset ids are pairwise distinct; getPresetById(id) is the preset of
\* the list whose id is id, and undefined when the list has none
C28_PresetLookup ==
  /\ \A i, j \in 1..Len(presets) : presets[i].id = presets[j].id => i = j
  /\ invocation.op = "lookup" =>
        IF \E i \in 1..Len(presets) : presets[i].id = invocation.id
        THEN \E i \in 1..Len(presets) :
               presets[i].id = invocation.id /\ invocation.found = presets[i]
        ELSE invocation.found = NoPreset

\* an id that is not in the list was looked up
C28_UnknownIdLookedUp ==
  /\ invocation.op = "lookup"
  /\ invocation.id = "remux-avi"
  /\ invocation.found = NoPreset

\* the registry holds the MSI / enterprise marker on a platform that is asked for it
MsiMarkerDetected ==
  /\ updater.inits > 0
  /\ platform = "win32"
  /\ \E k \in 1..Len(registryKeys) :
        /\ updater.registry[k].ok
        /\ \E i \in 1..Len(updater.registry[k].lines) :
              LET line == updater.registry[k].lines[i]
              IN  \/ line = [name |-> "InstalledViaMsi", type |-> "REG_DWORD",
                              raw |-> "0x1"]
                  \/ line = [name |-> "DISABLEAUTOUPDATES", type |-> "reg_dword",
                              raw |-> "1"]

\* C29: once initUpdater has detected the MSI / enterprise marker, whatever calls
\* of checkForUpdates and checkForUpdatesSilent follow, autoUpdater.checkForUpdates
\* has never been invoked, no autoUpdater handler is registered, and
\* isUpdateDisabled() answers true
C29_MsiDisablesUpdaterForGood ==
  MsiMarkerDetected =>
    /\ updater.checks = 0
    /\ updater.pending = 0
    /\ updater.listeners = 0
    /\ isUpdateDisabled(updater)
    /\ updater.answered \subseteq {TRUE}

\* on an MSI installation both checks were asked for, and the query answered
C29_ChecksOnMsiInstallation ==
  /\ MsiMarkerDetected
  /\ updater.calls = MaxUpdateCalls
  /\ updater.dialogs = 1
  /\ updater.answered = {TRUE}

\* text is the chunks one after the other, in their order
IsConcatenation(text, chunks) ==
  LET sizes == [k \in 1..Len(chunks) |-> Len(chunks[k])]
      RECURSIVE before(_)
      before(k) == IF k = 1 THEN 0 ELSE before(k - 1) + sizes[k - 1]
  IN  /\ Len(text) = (IF chunks = << >> THEN 0
                      ELSE before(Len(chunks)) + sizes[Len(chunks)])
      /\ \A k \in 1..Len(chunks) :
            /\ before(k) + sizes[k] <= Len(text)
            /\ SubSeq(text, before(k) + 1, before(k) + sizes[k]) = chunks[k]

\* C30: a terminal event that resolves a run whose process was never canceled to a
\* failure deletes no file, and the failure carries the run's output path and, on
\* 'close' with a code other than 0, the stderr chunks concatenated in their order
\* of arrival, on 'error' (the spawn failed) the message of the error
C30_FailureCarriesDiagnostic ==
  [][ \A p \in Procs :
        ( /\ result[p] = NoResult
          /\ result'[p] # NoResult
          /\ p \notin cancelSeen'
          /\ ~result'[p].success ) =>
            /\ files' = files
            /\ result'[p].outputPath = run'[p].outputPath
            /\ IF "close" \in fired'[p]
               THEN /\ exitCode[p] # {0}
                    /\ last'.op = "close"
                    /\ IsConcatenation(result'[p].error, last'.chunks)
               ELSE /\ fired'[p] = {"error"}
                    /\ result'[p].error = SpawnErrorMessage ]_vars

\* a process that was never canceled wrote its output file and two stderr chunks,
\* closed with code 1, and its run failed with both chunks while the file remains
C30_FailedWithTwoChunks ==
  \E p \in Procs :
    /\ last.op = "close"
    /\ last.proc = {p}
    /\ p \in last.resolved
    /\ p \notin cancelSeen
    /\ exitCode[p] = {1}
    /\ Len(last.chunks) = 2
    /\ ~result[p].success
    /\ result[p].error = StderrChunk(1) \o StderrChunk(2)
    /\ run[p].outputPath \in files

\* what was handed to onProgress, as channel and input, in the order of the calls
Delivered ==
  [i \in 1..Len(progress.samples) |->
     [channel |-> progress.samples[i].channel, input |-> progress.samples[i].input]]

\* the stdout lines with out_time_ms= among what arrived
StdoutTimed(e) == e.channel = "stdout" /\ Includes(e.input, <<"out_time_ms", "=">>)

\* a sample is computed from its own line or chunk and the duration alone
SamplesCarryNoState ==
  \A i, j \in 1..Len(progress.samples) :
     progress.samples[i].input = progress.samples[j].input =>
        progress.samples[i].percent = progress.samples[j].percent

\* C31 as stated: the samples are, in arrival order, one for each stdout line
\* with out_time_ms= and one for each stderr chunk in which time= occurs, and
\* none else; a sample depends on nothing but its own line or chunk.
C31_OneSamplePerTimeChunk ==
  /\ Delivered = SelectSeq(progress.arrived,
                     LAMBDA e : \/ StdoutTimed(e)
                                \/ /\ e.channel = "stderr"
                                   /\ \E i \in 1..Len(e.input) : e.input[i] = "time=")
  /\ SamplesCarryNoState

\* C31, amended: the samples are, in arrival order (so each channel keeps its
\* own order in every interleaving), one for each stdout line with out_time_ms=
\* and one for each stderr chunk in which time= is followed by a time value
\* HH:MM:SS, and none else (a chunk with time=N/A yields none); a sample
\* depends on nothing but its own line or chunk.
C31_OneSamplePerTimeValueChunk ==
  /\ Delivered = SelectSeq(progress.arrived,
                     LAMBDA e : \/ StdoutTimed(e)
                                \/ e.channel = "stderr" /\ e.input \in TimedChunks)
  /\ SamplesCarryNoState

\* a chunk with time=N/A, a stdout chunk of two out_time_ms lines and a status
\* line have arrived, in any order, and three samples were sent
C31_InterleavedChannels ==
  /\ progress.chunks = 3
  /\ Len(progress.samples) = 3
  /\ \E i \in 1..Len(progress.arrived) :
        progress.arrived[i] = [channel |-> "stderr",
                               input |-> <<"frame=", "00", "time=", "N/A">>]
  /\ \E i \in 1..Len(progress.arrived) :
        /\ progress.arrived[i].channel = "stderr"
        /\ progress.arrived[i].input \in TimedChunks
  /\ Len(SelectSeq(progress.arrived, StdoutTimed)) = 2

\* C32: when the metadata probing of a run has failed (getVideoInfo rejected and
\* so did the fallback getVideoDuration), the run has spawned its process all the
\* same, with totalDuration 0, every progress sample sent for it has percent = 0,
\* and its command line carries no hardware-decode arguments; the latter already
\* when getVideoInfo alone rejected, for every vendor, platform and preset.
C32_FailedProbingStillRuns ==
  /\ (progress.info = "rejected" /\ progress.fallback = "rejected") =>
        /\ progress.totalDuration = {Num(0)}
        /\ \A i \in 1..Len(progress.samples) : progress.samples[i].percent = Num(0)
        /\ progress.decodeArgs = << >>
  /\ progress.info = "rejected" =>
        progress.inputCodec = "undefined" /\ progress.decodeArgs = << >>

\* both probes failed, and the process has written a status line and a stdout
\* chunk of two out_time_ms lines: three samples were sent
C32_SamplesWithoutMetadata ==
  /\ progress.info = "rejected"
  /\ progress.fallback = "rejected"
  /\ progress.totalDuration # {}
  /\ Len(progress.samples) = 3
  /\ \E i \in 1..3 : progress.samples[i].channel = "stderr"
  /\ \E i \in 1..3 : progress.samples[i].channel = "stdout"

\* C37: no progress sample of a run is handed to onProgress after the run's
\* promise has been resolved, whether 'close' or 'error' resolved it.
C37_NoSampleAfterResult == progress.late = 0

\* C39: the 'close' event that follows the 'error' event of a probe whose spawn
\* failed leaves the cache of its listing as it was before: the empty set of the
\* failed probe is not cached.
C39_FailedProbeNotCached ==
  capability.last.op = "close" =>
     CacheOf(capability.last.kind) = capability.last.cached

\* C33: whatever the controller directs the 'q' byte, SIGTERM or a kill (SIGKILL,
\* taskkill) at is a process that a cancelConversion call has added to
\* canceledProcesses, in the cancel call itself and in the grace timer's callback:
\* a process that no cancel has marked is never signaled.
C33_OnlyCanceledProcessesSignaled == last.signaled \subseteq cancelSeen

\* the grace timer has killed the process of run 1, marked by a non-forced cancel,
\* while nothing was directed at a later run
C33_TimerKilledCanceledProcess ==
  /\ last.op = "timer"
  /\ last.signaled = {1}
  /\ last.kills > 0
  /\ 1 \in cancelSeen

\* C38: whenever the transcoding process of a run is alive, main's
\* isConversionActive is true.
C38_ActiveFlagCoversLiveProcess ==
  \A p \in Procs : proc[p] = "alive" => isConversionActive

\* C36: a cancel-conversion that arrives while a run awaits its metadata probes
\* marks nothing for that run and arms no timer for it, the run stays where it
\* is, and main's isConversionActive and the renderer's isConverting are false
\* afterwards; the run's process is then spawned without a mark in
\* canceledProcesses. (That such a run can end Succeeded is C36_SucceededAfterCancel.)
C36_CancelWhileProbingForgotten ==
  [][ \A r \in Procs :
        /\ ( /\ pc[r] \in {"info", "duration"}
             /\ last'.op = "cancel"
             /\ ~last'.force ) =>
                /\ r \notin canceledProcesses'
                /\ r \notin cancelSeen'
                /\ timers'[r] = timers[r]
                /\ pc'[r] = pc[r]
                /\ proc'[r] = "none"
                /\ ~isConversionActive'
                /\ ~isConverting'
        /\ (proc[r] = "none" /\ proc'[r] # "none") => r \notin canceledProcesses' ]_vars

\* the only run there has been resolves to success on the 'close' of its
\* process, which no cancel has ever marked, and 'conversion-complete' is sent
\* for it, while isConversionActive was false already when the process closed:
\* only a cancel-conversion between start-conversion's isConversionActive = true
\* and the spawn can have cleared it
C36_SucceededAfterCancel ==
  /\ started = 1
  /\ last.op = "close"
  /\ last.proc = {1}
  /\ ~last.active
  /\ 1 \notin cancelSeen
  /\ result[1] # NoResult
  /\ result[1].success
  /\ Len(notif[1]) = 1
  /\ notif[1][1].channel = "conversion-complete"
  /\ ~isConversionActive

\* C35: a step that deletes an output file (the cleanup of a canceled run, in its
\* 'close' or 'error' listener) deletes no file that a later run has opened and
\* is still writing, or has completed successfully.
C35_CleanupDeletesOnlyOwnOutput ==
  [][ \A f \in files \ files' : \A p \in last'.proc : \A q \in Procs :
        ( /\ q > p
          /\ run[q].wrote
          /\ run[q].outputPath = f ) =>
            /\ proc[q] # "alive"
            /\ ~(result[q] # NoResult /\ result[q].success) ]_vars

\* C34: with one run only, a kill terminating the process it is sent to, and the
\* grace timer and the 'close' event delivered: once cancelConversion, forced or
\* not, has found the run's process as currentProcess, the run eventually is
\* resolved with error 'Conversion cancelled' and currentProcess is null.
C34_CancelEventuallyResolves ==
  \A p \in Procs :
     (p \in cancelSeen) ~> (result[p] = CancelledResult(p) /\ currentProcess = {})

\* a non-forced cancel whose SIGTERM the process ignored: the grace timer has
\* killed it, and its 'close', with exitCode null, has resolved the run as
\* cancelled
C34_ResolvedAfterTimerKill ==
  /\ last.op = "close"
  /\ last.proc = {1}
  /\ 1 \in cancelSeen
  /\ exitCode[1] = {}
  /\ timers[1] = 0
  /\ result[1] = CancelledResult(1)
  /\ currentProcess = {}

====
